---- MODULE Spec2Model ----
(***************************************************************************)
(* iohub: the per-uid I/O throttle (throttle.c), the read/write path that  *)
(* calls it and the open/create/release of file handles (file.c), as a     *)
(* state machine.                                                          *)
(*                                                                         *)
(* A uint64_t is a tuple of four limbs <<l0, l1, l2, l3>>, least           *)
(* significant first: l0, l1, l2 hold BITS_PER_PERIOD = 20 bits each, l3   *)
(* holds the remaining 4 bits of the 64.  Shifting by BITS_PER_PERIOD is   *)
(* then a shift by one limb, and the bits a left shift pushes past bit 63  *)
(* are dropped exactly as the C code drops them.                           *)
(***************************************************************************)
EXTENDS Integers, Sequences, FiniteSets

\* ------------------------------------------------------------------------
\* Bounds of the model.
\* ------------------------------------------------------------------------
\* Number of hub_read/hub_write requests the dispatcher issues in one run.
MaxCalls == 3
\* Number of times the clock is seen to advance in one run.
MaxTicks == 1
\* Number of hub_open/hub_create requests in one run.
MaxOpens == 3
MaxArgs == 4
BufLen == 4
MaxText == 3
MaxAppends == 3

\* ------------------------------------------------------------------------
\* Program constants.
\* ------------------------------------------------------------------------
SECS_PER_PERIOD == 5
BITS_PER_PERIOD == 20
PERIOD_MASK == (2 ^ BITS_PER_PERIOD) - 1
\* 0xffffffff, written as (uint32_t)-1: it only has to differ from every
\* configured uid.
UNKNOWN_UID == -1
\* Width of uint64_t, and what is left of it above three 20-bit limbs.
WORD_BITS == 64
TopBits == WORD_BITS - 3 * BITS_PER_PERIOD
\* The null pointer.  Records are named by their key, and no list of the
\* model configures uid 0; a struct hub_file is named by its address, and
\* no address is 0.
NULL == 0
\* The size of a path buffer (limits.h, Linux).
PATH_MAX == 4096
\* errno values (Linux).
ENOENT == 2
EINVAL == 22
EINTR == 4
EIO == 5
ENOMEM == 12
ENAMETOOLONG == 36
EACCES == 13
EPERM == 1
EEXIST == 17
ENOTDIR == 20
EISDIR == 21
ENOTEMPTY == 39
ENODATA == 61
ELOOP == 40
EBADF == 9
EFBIG == 27
ERANGE == 34
EOPNOTSUPP == 95

\* ------------------------------------------------------------------------
\* uint64_t arithmetic on limbs.
\* ------------------------------------------------------------------------
Base == PERIOD_MASK + 1

\* The uint64_t with value n, for 0 <= n < 2^31.
U64(n) == << n % Base, n \div Base, 0, 0 >>

\* a < b
Less(a, b) ==
    \/ a[4] < b[4]
    \/ a[4] = b[4] /\ a[3] < b[3]
    \/ a[4] = b[4] /\ a[3] = b[3] /\ a[2] < b[2]
    \/ a[4] = b[4] /\ a[3] = b[3] /\ a[2] = b[2] /\ a[1] < b[1]

Leq(a, b) == ~Less(b, a)

\* a - b, for a >= b (the only subtraction throttle() does is guarded by
\* avail >= amt).
Sub(a, b) ==
    LET d1 == a[1] - b[1]
        w1 == IF d1 < 0 THEN 1 ELSE 0
        d2 == a[2] - b[2] - w1
        w2 == IF d2 < 0 THEN 1 ELSE 0
        d3 == a[3] - b[3] - w2
        w3 == IF d3 < 0 THEN 1 ELSE 0
    IN  << d1 + w1 * Base, d2 + w2 * Base, d3 + w3 * Base, a[4] - b[4] - w3 >>

\* a + b as a natural number: the top limb is allowed to grow, so the sum
\* of the bytes granted is never reduced modulo 2^64.
Add(a, b) ==
    LET s1 == a[1] + b[1]
        s2 == a[2] + b[2] + (s1 \div Base)
        s3 == a[3] + b[3] + (s2 \div Base)
    IN  << s1 % Base, s2 % Base, s3 % Base, a[4] + b[4] + (s3 \div Base) >>

\* x << BITS_PER_PERIOD on a uint64_t: one limb up, the bits above bit 63
\* are lost.
ShiftLeft(x) == << 0, x[1], x[2], x[3] % (2 ^ TopBits) >>

\* x >> BITS_PER_PERIOD
ShiftRight(x) == << x[2], x[3], x[4], 0 >>

\* x & PERIOD_MASK, as a number.
PeriodOf(x) == x[1]

\* period | w, for a word w whose low BITS_PER_PERIOD bits are zero.
OrPeriod(period, w) == << period, w[2], w[3], w[4] >>

Zero == U64(0)
One == U64(1)

\* ------------------------------------------------------------------------
\* Inputs: configuration lists, request uids and sizes, clock readings.
\* ------------------------------------------------------------------------
Conf(u, f) == [uid |-> u, full |-> f]

\* uid_config_list -> cmccabe -> woot of fs.c.
uid_config_list ==
    << Conf(UNKNOWN_UID, U64(5242880)), Conf(1014, U64(262144000)),
       Conf(1015, U64(5242880)) >>

\* Scenario A of the specification: 5 s x 20 MiB/s for one user, with the
\* fallback entry last.
ScenarioAList == << Conf(1014, U64(104857600)), Conf(UNKNOWN_UID, U64(3)) >>

\* Allocations of two bytes.
SmallList == << Conf(1014, U64(2)), Conf(UNKNOWN_UID, U64(2)) >>

\* A list without the fallback entry.
NoUnknownList == << Conf(1014, U64(3)) >>

ConfigLists == { uid_config_list, ScenarioAList, SmallList, NoUnknownList }

\* The largest amount that passes line 162 on a record of allocation f
\* whose period has rolled over, less one.
Huge(f) == Sub(ShiftLeft(f), One)

\* The requests (uid, size) the dispatcher may issue under each list, as
\* reads and as writes.  1000 and 1001 are configured in no list.
ReadRequests(l) ==
    IF l = uid_config_list
    THEN { << 1014, One >>, << 1000, Huge(U64(5242880)) >> }
    ELSE IF l = ScenarioAList
    THEN { << 1014, U64(50000000) >> }
    ELSE IF l = SmallList
    THEN { << 1014, One >>, << 1000, One >> }
    ELSE { << 1014, One >> }

WriteRequests(l) ==
    IF l = uid_config_list
    THEN { << 1014, Huge(U64(262144000)) >>, << 1000, One >> }
    ELSE IF l = ScenarioAList
    THEN { << 1014, U64(60000000) >> }
    ELSE IF l = SmallList
    THEN { << 1014, Huge(U64(2)) >>, << 1001, One >> }
    ELSE { << 1014, One >> }

Requests(l) == ReadRequests(l) \cup WriteRequests(l)

\* Clock readings: the run starts at the end of period 1, or, right after
\* boot, at the end of period 0 (BootSec), and a tick moves the clock by a
\* whole period; the nanoseconds of a reading are any of NsecChoices.
\* WrapSecs is the time after which the period identifiers repeat (60
\* days).
StartSec == 9
BootSec == SECS_PER_PERIOD - 1
TickSecs == { SECS_PER_PERIOD }
WrapSecs == SECS_PER_PERIOD * (PERIOD_MASK + 1)
NsecChoices == { 0, 999999999 }

\* The request threads of the dispatcher.
Threads == { 1, 2 }

\* ------------------------------------------------------------------------
\* State.
\* ------------------------------------------------------------------------
VARIABLES
    list,          \* the uid_config list main() passes to throttle_init
    main_pc,       \* position of main(): "start", then "serving"
    g_uid_table,   \* uid -> struct uid_data [full, cur]
    aborted,       \* abort() was called
    clock,         \* CLOCK_MONOTONIC_RAW, in whole seconds
    ticks,         \* number of clock advances so far
    calls,         \* number of requests dispatched so far
    pc,            \* per thread: position in hub_read/hub_write/throttle
    uid,           \* per thread: fuse_get_context()->uid
    amt,           \* per thread: size of the request
    udata,         \* per thread: key of the record throttle() resolved
    prev,          \* per thread: last value read from udata->cur
    cur_period,    \* per thread
    avail,         \* per thread: as computed at line 157 or 160
    delta,         \* per thread: argument of nanosleep
    op,            \* per thread: the handler it runs, "read" or "write"
    granted,       \* per record: bytes granted under the record's current tag
    written,       \* per record: period (not reduced) of the last grant
    ncas,          \* per thread: successful compare-and-swaps of this call
    race,          \* the two calls that race for exactly the budget left
    heap,          \* the allocated struct hub_file: address -> [fd]
    fdtable,       \* the descriptors open in the process
    ofd,           \* descriptor -> the open file description behind it
    held,          \* the handles FUSE holds (info->fh of open files)
    fpc,           \* per thread: position in hub_open_impl / hub_release
    file,          \* per thread: the local file of the handler
    ret,           \* per thread: the value the last handler returned
    fh,            \* per thread: info->fh of the last open or create
    nclose,        \* per thread: close() calls of the handler so far
    cerr,          \* per thread: errno of the handler's close(), 0 for none
    opens,         \* number of open / create requests so far
    bpath,         \* per thread: the path hub_open_impl opens, below fs->root
    flags,         \* per thread: the flags of hub_open_impl, a set of names
    argv,          \* main's argv, argc = Len(argv)
    args,          \* main's struct fuse_args: [argc, argv]
    fs_root,       \* fs->root
    str,           \* the bytes of a buffer handed to snappend, and beyond
    appended,      \* the texts formatted into str so far, concatenated
    sn_ret,        \* the value the last snappend returned
    nappend,       \* number of snappend calls so far
    backing,       \* the backing file system under fs->root: path -> kind
    last           \* the last operation dispatched and its outcome

tvars == << pc, uid, amt, udata, prev, cur_period, avail, delta >>
fvars == << heap, fdtable, ofd, held, fpc, file, ret, fh, nclose, cerr, opens,
           bpath, flags >>
uvars == << argv, args, fs_root, str, appended, sn_ret, nappend, backing,
           last >>
vars == << list, main_pc, g_uid_table, aborted, clock, ticks, calls, tvars,
           op, granted, written, ncas, race, fvars, uvars >>

\* The delta of a call that has not slept.  nanosleep is only ever handed
\* a delta with tv_nsec >= 1.
NoDelta == [tv_sec |-> 0, tv_nsec |-> 0]

\* No race is being observed.
NoRace == [rec |-> NULL, pair |-> {}, left |-> {}]

\* The descriptors the process starts with: stdin, stdout, stderr.
StdFds == { 0, 1, 2 }

\* A record no grant has been made on yet.
NeverWritten == -1

\* The bytes of a string: characters, and NUL for the terminator.
NUL == "NUL"

\* The buffer handed to snappend has BufLen bytes (str_len); the memory
\* modelled is MemLen bytes, and the bytes after the buffer hold a canary,
\* as in test_snappend.
MemLen == 2 * BufLen
Canary == "#"

\* No operation has been dispatched yet.
NoOp == [op |-> "none", path |-> << >>, err |-> 0, ret |-> 0, over |-> FALSE]

\* The parts of the state that main() and the handlers of a run do not
\* use: the fuse_args as main() zeroes them (fs.c line 177), a zeroed
\* buffer, an empty backing root.
ArgsIdle ==
    /\ argv = << "hubfs" >>
    /\ args = [argc |-> 0, argv |-> NULL]
    /\ fs_root = NULL

BufIdle ==
    /\ str = [ i \in 0..(MemLen - 1) |-> IF i < BufLen THEN NUL ELSE Canary ]
    /\ appended = << >>
    /\ sn_ret = 0
    /\ nappend = 0

MetaIdle ==
    /\ backing = << >>
    /\ last = NoOp

UtilIdle == ArgsIdle /\ BufIdle /\ MetaIdle

Init ==
    /\ list \in ConfigLists
    /\ main_pc = "start"
    /\ g_uid_table = << >>
    /\ aborted = FALSE
    /\ clock = StartSec
    /\ ticks = 0
    /\ calls = 0
    /\ pc = [t \in Threads |-> "idle"]
    /\ uid = [t \in Threads |-> 0]
    /\ amt = [t \in Threads |-> Zero]
    /\ udata = [t \in Threads |-> NULL]
    /\ prev = [t \in Threads |-> Zero]
    /\ cur_period = [t \in Threads |-> 0]
    /\ avail = [t \in Threads |-> Zero]
    /\ delta = [t \in Threads |-> NoDelta]
    /\ op = [t \in Threads |-> "none"]
    /\ granted = << >>
    /\ written = << >>
    /\ ncas = [t \in Threads |-> 0]
    /\ race = NoRace
    /\ heap = << >>
    /\ fdtable = StdFds
    /\ ofd = << >>
    /\ held = {}
    /\ fpc = [t \in Threads |-> "idle"]
    /\ file = [t \in Threads |-> NULL]
    /\ ret = [t \in Threads |-> 0]
    /\ fh = [t \in Threads |-> NULL]
    /\ nclose = [t \in Threads |-> 0]
    /\ cerr = [t \in Threads |-> 0]
    /\ opens = 0
    /\ bpath = [t \in Threads |-> << >>]
    /\ flags = [t \in Threads |-> {}]
    /\ UtilIdle

\* ------------------------------------------------------------------------
\* throttle_init
\* ------------------------------------------------------------------------
\* htable_get: the value stored under key, or NULL.
htable_get(table, key) == IF key \in DOMAIN table THEN key ELSE NULL

\* A throttle_init whose loop starts at the second entry of the list.
BuildTableSkipHead(l) ==
    [ u \in { l[i].uid : i \in 2..Len(l) } |->
        [ full |-> l[CHOOSE i \in 2..Len(l) : l[i].uid = u].full,
          cur |-> Zero ] ]

\* The table throttle_init builds from a list: one zeroed uid_data per
\* entry, with full copied from the entry.
BuildTable(l) ==
    [ u \in { l[i].uid : i \in 1..Len(l) } |->
        [ full |-> l[CHOOSE i \in 1..Len(l) : l[i].uid = u].full,
          cur |-> Zero ] ]

\* Lines 97-129.  The loop puts one record per entry; when htable_alloc
\* (line 106), the xcalloc of a record (line 113) or htable_put (line 115)
\* fails, the process aborts with the k entries put so far, and main()
\* never serves ("oom").  When the whole list has been put, the process
\* aborts exactly when there is no record for UNKNOWN_UID (lines 122-127).
throttle_init ==
    /\ main_pc = "start"
    /\ ~aborted
    /\ \E k \in 0..Len(list) :
          LET table == BuildTable(SubSeq(list, 1, k)) IN
          /\ g_uid_table' = table
          /\ granted' = [ u \in DOMAIN table |-> Zero ]
          /\ written' = [ u \in DOMAIN table |-> NeverWritten ]
          /\ IF k < Len(list)
             THEN /\ main_pc' = "oom"
                  /\ aborted' = TRUE
             ELSE /\ main_pc' = "serving"
                  /\ aborted' = (htable_get(table, UNKNOWN_UID) = NULL)
    /\ UNCHANGED uvars
    /\ UNCHANGED << fvars, list, clock, ticks, calls, tvars, op, ncas, race >>

\* ------------------------------------------------------------------------
\* The clock.
\* ------------------------------------------------------------------------
Tick ==
    /\ ticks < MaxTicks
    /\ \E d \in TickSecs : clock' = clock + d
    /\ ticks' = ticks + 1
    /\ race' = NoRace
    /\ UNCHANGED uvars
    /\ UNCHANGED << fvars, list, main_pc, g_uid_table, aborted, calls, tvars,
                    op, granted, written, ncas >>

\* ------------------------------------------------------------------------
\* throttle
\* ------------------------------------------------------------------------
\* Lines 138-141: the record of uid, or the record of UNKNOWN_UID.
Lookup(table, u) ==
    IF htable_get(table, u) # NULL
    THEN htable_get(table, u)
    ELSE htable_get(table, UNKNOWN_UID)

\* Line 152.
CurPeriod(tv_sec) == (tv_sec \div SECS_PER_PERIOD) % (PERIOD_MASK + 1)

\* A throttle() that never takes the allocation to have renewed.
AvailNoRenewal(full, prv, period) == ShiftRight(prv)

\* Lines 153-161: the budget a thread takes to be available, from the word
\* it read, the period it computed and the record's allocation.
Avail(full, prv, period) ==
    IF period # PeriodOf(prv)
    THEN ShiftLeft(full)
    ELSE ShiftRight(prv)

\* Line 177: the word a grant stores, from the budget left.
NextWord(period, left) == OrPeriod(period, ShiftLeft(left))

\* Lines 170-171.
Delta(period, ts) ==
    [ tv_sec |-> ((period + 1) * SECS_PER_PERIOD) - ts.tv_sec,
      tv_nsec |-> 1000000000 - ts.tv_nsec ]

\* A compare-and-swap that stores whatever the word has become.
CasStoresAlways(word, prv) == TRUE

\* Line 178: the compare-and-swap replaces the word when it still is the
\* value the thread read.
CasStores(word, prv) == word = prv

\* A thread that takes its compare-and-swap to have failed whatever it
\* returned.
CasFailsSpuriously(word, prv) == FALSE

\* Lines 178-179: the compare-and-swap succeeds when the word still is the
\* value the thread read.
CasSucceeds(word, prv) == word = prv

\* A compare-and-swap that hands back the value it was told to expect.
ReturnsExpected(word, prv) == prv

\* Line 178: __sync_val_compare_and_swap returns the value it found in
\* the word, which is nprev.
sync_val_compare_and_swap(word, prv) == word

\* A compare-and-swap that writes the word into every record.
StoreCurAll(table, key, word) ==
    [ k \in DOMAIN table |-> [ table[k] EXCEPT !.cur = word ] ]

\* The write of a successful compare-and-swap: only the cur of the record
\* the thread resolved.
StoreCur(table, key, word) == [ table EXCEPT ![key].cur = word ]

\* The budget left on a record at a clock reading, as the specification
\* defines it: the remaining bytes of a word of the current period, the
\* whole allocation otherwise.
Budget(full, word, period) ==
    IF PeriodOf(word) = period THEN ShiftRight(word) ELSE full

\* Observation of a race, for the properties only.  A race starts when
\* thread t enters throttle() on record r with amount size while exactly
\* one other call t2 is pending on r, t2 has not read the clock in an
\* earlier period, and the two amounts together are exactly the budget
\* left on r at this clock reading.  A call that enters on r while a race
\* on r is still undecided ends the observation: the budget is no longer
\* the two racers' alone.
Pending(t, r) == pc[t] \in { "clock", "cas", "sleep" } /\ udata[t] = r

RaceOnEnter(t, r, size) ==
    LET others == { t2 \in Threads \ {t} : Pending(t2, r) }
        here == CurPeriod(clock)
        budget == Budget(g_uid_table[r].full, g_uid_table[r].cur, here)
    IN  IF \E t2 \in others :
              /\ others = {t2}
              /\ pc[t2] = "clock" \/ (pc[t2] = "cas" /\ cur_period[t2] = here)
              /\ Add(size, amt[t2]) = budget
        THEN [rec |-> r, pair |-> others \cup {t}, left |-> others \cup {t}]
        ELSE IF race.rec = r /\ race.left # {}
        THEN NoRace
        ELSE race

RaceOnGrant(t) ==
    IF race.rec = udata[t] /\ t \in race.left
    THEN [race EXCEPT !.left = @ \ {t}]
    ELSE race

\* hub_read / hub_write up to and including line 142 of throttle(): the
\* request is dispatched to thread t, the record is looked up and its
\* word is read.
Enter(t, u, size) ==
    /\ pc[t] = "idle"
    /\ calls < MaxCalls
    /\ calls' = calls + 1
    /\ uid' = [uid EXCEPT ![t] = u]
    /\ amt' = [amt EXCEPT ![t] = size]
    /\ udata' = [udata EXCEPT ![t] = Lookup(g_uid_table, u)]
    /\ prev' = [prev EXCEPT ![t] = g_uid_table[Lookup(g_uid_table, u)].cur]
    /\ ncas' = [ncas EXCEPT ![t] = 0]
    /\ race' = RaceOnEnter(t, Lookup(g_uid_table, u), size)
    /\ pc' = [pc EXCEPT ![t] = "clock"]
    /\ UNCHANGED uvars
    /\ UNCHANGED << fvars, list, main_pc, g_uid_table, aborted, clock, ticks,
                    cur_period, avail, delta, granted, written >>

\* hub_read, lines 123-133: throttle(uid, size) for the uid of the context.
hub_read(t) ==
    /\ main_pc = "serving"
    /\ ~aborted
    /\ op' = [op EXCEPT ![t] = "read"]
    /\ \E r \in ReadRequests(list) : Enter(t, r[1], r[2])

\* hub_write, lines 146-157.
hub_write(t) ==
    /\ main_pc = "serving"
    /\ ~aborted
    /\ op' = [op EXCEPT ![t] = "write"]
    /\ \E r \in WriteRequests(list) : Enter(t, r[1], r[2])

\* Lines 146-175 up to the call of nanosleep: read the clock, compute the
\* available budget, and decide between the compare-and-swap, the wait and
\* abort().  When clock_gettime fails the process aborts where the thread
\* stands (lines 147-151).
throttle_clock(t) ==
    /\ main_pc = "serving"
    /\ ~aborted
    /\ pc[t] = "clock"
    /\ \/ /\ aborted' = TRUE
          /\ UNCHANGED << pc, cur_period, avail, delta >>
       \/ \E ns \in NsecChoices :
          LET cur == [tv_sec |-> clock, tv_nsec |-> ns]
              full == g_uid_table[udata[t]].full
              period == CurPeriod(cur.tv_sec)
              av == Avail(full, prev[t], period)
          IN  /\ cur_period' = [cur_period EXCEPT ![t] = period]
              /\ avail' = [avail EXCEPT ![t] = av]
              /\ IF Less(av, amt[t])
                 THEN IF Less(full, amt[t])
                      THEN /\ aborted' = TRUE
                           /\ pc' = [pc EXCEPT ![t] = "aborted"]
                           /\ delta' = delta
                      ELSE /\ aborted' = aborted
                           /\ pc' = [pc EXCEPT ![t] = "sleep"]
                           /\ delta' = [delta EXCEPT ![t] = Delta(period, cur)]
                 ELSE /\ aborted' = aborted
                      /\ pc' = [pc EXCEPT ![t] = "cas"]
                      /\ delta' = delta
    /\ UNCHANGED uvars
    /\ UNCHANGED << fvars, list, main_pc, g_uid_table, clock, ticks, calls, uid,
                    amt, udata, prev, op, granted, written, ncas, race >>

\* nanosleep(&delta) returns at once with EINVAL when delta is no valid
\* interval, and otherwise once the interval has passed, or before that
\* when a signal handler has run (EINTR); line 172 does not look at what
\* it returns.  The interval
\* starts at the reading (s, n) the thread took, and n + delta.tv_nsec is
\* one whole second, so it ends at the start of second
\* s + delta.tv_sec + 1 = (cur_period + 1) * SECS_PER_PERIOD + 1.  (A valid
\* interval has delta.tv_sec >= 0, and then s is below
\* SECS_PER_PERIOD * 2^BITS_PER_PERIOD and cur_period is the period of s
\* without reduction.)
ValidInterval(d) ==
    d.tv_sec >= 0 /\ d.tv_nsec >= 0 /\ d.tv_nsec < 1000000000

\* The interval thread t sleeps for is over.
IntervalOver(t) == clock >= (cur_period[t] + 1) * SECS_PER_PERIOD + 1

\* Lines 172-174: nanosleep returns (EINVAL, the interval is over, or
\* EINTR before it is over) and the word is read again.
throttle_wake(t) ==
    /\ main_pc = "serving"
    /\ ~aborted
    /\ pc[t] = "sleep"
    /\ \/ ~ValidInterval(delta[t])
       \/ IntervalOver(t)
       \/ ValidInterval(delta[t]) /\ ~IntervalOver(t)
    /\ prev' = [prev EXCEPT ![t] = g_uid_table[udata[t]].cur]
    /\ pc' = [pc EXCEPT ![t] = "clock"]
    /\ UNCHANGED uvars
    /\ UNCHANGED << fvars, list, main_pc, g_uid_table, aborted, clock, ticks,
                    calls, uid, amt, udata, cur_period, avail, delta, op,
                    granted, written, ncas, race >>

\* Lines 176-185: the compare-and-swap; on success throttle() returns, on
\* failure the value it found becomes prev.
throttle_cas(t) ==
    /\ main_pc = "serving"
    /\ ~aborted
    /\ pc[t] = "cas"
    /\ LET key == udata[t]
           word == g_uid_table[key].cur
           next == NextWord(cur_period[t], Sub(avail[t], amt[t]))
       IN  /\ g_uid_table' = IF CasStores(word, prev[t])
                             THEN StoreCur(g_uid_table, key, next)
                             ELSE g_uid_table
           /\ IF CasSucceeds(word, prev[t])
              THEN /\ granted' = [granted EXCEPT ![key] =
                          IF PeriodOf(word) = cur_period[t]
                          THEN Add(granted[key], amt[t])
                          ELSE amt[t]]
                   /\ written' = [written EXCEPT ![key] =
                          clock \div SECS_PER_PERIOD]
                   /\ ncas' = [ncas EXCEPT ![t] = ncas[t] + 1]
                   /\ race' = RaceOnGrant(t)
                   /\ pc' = [pc EXCEPT ![t] = "granted"]
                   /\ prev' = prev
              ELSE /\ prev' = [prev EXCEPT ![t] =
                          sync_val_compare_and_swap(word, prev[t])]
                   /\ pc' = [pc EXCEPT ![t] = "clock"]
                   /\ UNCHANGED << granted, written, ncas, race >>
    /\ UNCHANGED uvars
    /\ UNCHANGED << fvars, list, main_pc, aborted, clock, ticks, calls, uid, amt,
                    udata, cur_period, avail, delta, op >>

\* A throttle() that returns after nanosleep instead of trying again.
ThrottleReturnsAfterSleep(p) == p \in { "granted", "sleep" }

\* hub_read line 133 / hub_write line 157: the call of throttle() has
\* returned, which it does only at the break of line 182.
ThrottleReturned(p) == p = "granted"

\* hub_read lines 134-143 / hub_write lines 158-167: throttle() has
\* returned, the positioned read or write is issued and the request ends.
hub_io(t) ==
    /\ main_pc = "serving"
    /\ ~aborted
    /\ ThrottleReturned(pc[t])
    /\ pc' = [pc EXCEPT ![t] = "idle"]
    /\ uid' = [uid EXCEPT ![t] = 0]
    /\ amt' = [amt EXCEPT ![t] = Zero]
    /\ udata' = [udata EXCEPT ![t] = NULL]
    /\ prev' = [prev EXCEPT ![t] = Zero]
    /\ cur_period' = [cur_period EXCEPT ![t] = 0]
    /\ avail' = [avail EXCEPT ![t] = Zero]
    /\ delta' = [delta EXCEPT ![t] = NoDelta]
    /\ ncas' = [ncas EXCEPT ![t] = 0]
    /\ op' = [op EXCEPT ![t] = "none"]
    /\ UNCHANGED uvars
    /\ UNCHANGED << fvars, list, main_pc, g_uid_table, aborted, clock, ticks,
                    calls, granted, written, race >>

Next ==
    \/ throttle_init
    \/ Tick
    \/ \E t \in Threads : hub_read(t)
    \/ \E t \in Threads : hub_write(t)
    \/ \E t \in Threads : throttle_clock(t)
    \/ \E t \in Threads : throttle_wake(t)
    \/ \E t \in Threads : throttle_cas(t)
    \/ \E t \in Threads : hub_io(t)

Spec == Init /\ [][Next]_vars

\* ------------------------------------------------------------------------
\* Calls without contention, under a fair scheduler and a running clock.
\* ------------------------------------------------------------------------
\* No two calls of throttle() are in progress on one record.
Alone ==
    \A t1, t2 \in Threads :
        (t1 # t2 /\ pc[t1] \in { "clock", "cas", "sleep" }
                 /\ pc[t2] \in { "clock", "cas", "sleep" })
            => udata[t1] # udata[t2]

\* The state right after boot: the clock is in period 0.
LiveLists == { SmallList, ScenarioAList }

BootInit ==
    /\ list \in LiveLists
    /\ main_pc = "start"
    /\ g_uid_table = << >>
    /\ aborted = FALSE
    /\ clock = BootSec
    /\ ticks = 0
    /\ calls = 0
    /\ pc = [t \in Threads |-> "idle"]
    /\ uid = [t \in Threads |-> 0]
    /\ amt = [t \in Threads |-> Zero]
    /\ udata = [t \in Threads |-> NULL]
    /\ prev = [t \in Threads |-> Zero]
    /\ cur_period = [t \in Threads |-> 0]
    /\ avail = [t \in Threads |-> Zero]
    /\ delta = [t \in Threads |-> NoDelta]
    /\ op = [t \in Threads |-> "none"]
    /\ granted = << >>
    /\ written = << >>
    /\ ncas = [t \in Threads |-> 0]
    /\ race = NoRace
    /\ heap = << >>
    /\ fdtable = StdFds
    /\ ofd = << >>
    /\ held = {}
    /\ fpc = [t \in Threads |-> "idle"]
    /\ file = [t \in Threads |-> NULL]
    /\ ret = [t \in Threads |-> 0]
    /\ fh = [t \in Threads |-> NULL]
    /\ nclose = [t \in Threads |-> 0]
    /\ cerr = [t \in Threads |-> 0]
    /\ opens = 0
    /\ bpath = [t \in Threads |-> << >>]
    /\ flags = [t \in Threads |-> {}]
    /\ UtilIdle

\* The requests are dispatched so that the calls in progress are on
\* different records.
LiveNext ==
    \/ throttle_init
    \/ Tick
    \/ \E t \in Threads : hub_read(t) /\ Alone'
    \/ \E t \in Threads : hub_write(t) /\ Alone'
    \/ \E t \in Threads : throttle_clock(t)
    \/ \E t \in Threads : throttle_wake(t)
    \/ \E t \in Threads : throttle_cas(t)
    \/ \E t \in Threads : hub_io(t)

\* Every thread that can take a step eventually takes one, nanosleep
\* returns once its interval is over, and the clock advances (up to the
\* bound of the model).
ThreadStep(t) ==
    throttle_clock(t) \/ throttle_wake(t) \/ throttle_cas(t) \/ hub_io(t)

Fairness ==
    /\ WF_vars(Tick)
    /\ \A t \in Threads : WF_vars(ThreadStep(t))

LiveSpec == BootInit /\ [][LiveNext]_vars /\ Fairness

\* The run starts right after boot, in period 0.
BootSpec == BootInit /\ [][Next]_vars

\* ------------------------------------------------------------------------
\* The backing file system: the system calls the handlers forward to.
\* ------------------------------------------------------------------------
\* A path is the sequence of its names below fs->root; backing maps the
\* paths that exist to what is there: a directory, a regular file, or a
\* symbolic link with the path it points to.  The root always exists.
Dir == [kind |-> "dir", to |-> << >>]
File == [kind |-> "file", to |-> << >>]
Symlink(target) == [kind |-> "symlink", to |-> target]

Parent(p) == SubSeq(p, 1, Len(p) - 1)

Exists(tree, p) == p = << >> \/ p \in DOMAIN tree

IsDir(tree, p) == p = << >> \/ (p \in DOMAIN tree /\ tree[p].kind = "dir")

IsSymlink(tree, p) == p \in DOMAIN tree /\ tree[p].kind = "symlink"

IsPrefix(p, q) == Len(p) <= Len(q) /\ SubSeq(q, 1, Len(p)) = p

Children(tree, p) == { q \in DOMAIN tree : q # << >> /\ Parent(q) = p }

With(tree, p, entry) ==
    [ q \in DOMAIN tree \cup {p} |-> IF q = p THEN entry ELSE tree[q] ]

Without(tree, S) == [ q \in DOMAIN tree \ S |-> tree[q] ]

\* The outcome of a system call: its errno (0 when it succeeds) and the
\* file system after it.
Result(e, tree) == [err |-> e, tree |-> tree]

\* The outcome of resolving a path: an errno, or 0 and the place the path
\* leads to, which may not exist while the directory it lies in does.
Found(e, p) == [err |-> e, path |-> p]

\* Path resolution, name by name from cur: a name is looked up in a
\* directory only (ENOENT when cur does not exist, ENOTDIR when it is no
\* directory); a symbolic link is followed when more names come after it
\* or when follow is set, and the link made by hub_symlink holds a path
\* from the root; no more than n links are followed (ELOOP).
RECURSIVE Walk(_, _, _, _, _)
Walk(tree, cur, rest, follow, n) ==
    IF rest = << >> THEN Found(0, cur)
    ELSE IF ~Exists(tree, cur) THEN Found(ENOENT, cur)
    ELSE IF ~IsDir(tree, cur) THEN Found(ENOTDIR, cur)
    ELSE LET cand == Append(cur, Head(rest))
             more == Tail(rest)
         IN  IF IsSymlink(tree, cand) /\ (more # << >> \/ follow)
             THEN IF n = 0
                  THEN Found(ELOOP, cand)
                  ELSE Walk(tree, << >>, tree[cand].to \o more, follow, n - 1)
             ELSE Walk(tree, cand, more, follow, n)

\* The kernel follows at most 40 links in one resolution.
Namei(tree, p, follow) == Walk(tree, << >>, p, follow, 40)

\* The place path p leads to when links are followed, and the errno of
\* resolving it as stat(2) does.
Target(tree, p) == Namei(tree, p, TRUE).path

StatErr(tree, p) ==
    LET r == Namei(tree, p, TRUE)
    IN  IF r.err # 0 THEN r.err
        ELSE IF ~Exists(tree, r.path) THEN ENOENT
        ELSE 0

\* mkdir(2), mknod(2), symlink(2): the last name is not followed.
sys_create(tree, p, entry) ==
    LET r == Namei(tree, p, FALSE)
    IN  IF r.err # 0 THEN Result(r.err, tree)
        ELSE IF Exists(tree, r.path) THEN Result(EEXIST, tree)
        ELSE Result(0, With(tree, r.path, entry))

\* unlink(2), rmdir(2), readlink(2): the last name is not followed.
sys_unlink(tree, p) ==
    LET r == Namei(tree, p, FALSE)
    IN  IF r.err # 0 THEN Result(r.err, tree)
        ELSE IF ~Exists(tree, r.path) THEN Result(ENOENT, tree)
        ELSE IF IsDir(tree, r.path) THEN Result(EISDIR, tree)
        ELSE Result(0, Without(tree, { r.path }))

sys_rmdir(tree, p) ==
    LET r == Namei(tree, p, FALSE)
    IN  IF r.err # 0 THEN Result(r.err, tree)
        ELSE IF ~Exists(tree, r.path) THEN Result(ENOENT, tree)
        ELSE IF ~IsDir(tree, r.path) THEN Result(ENOTDIR, tree)
        ELSE IF Children(tree, r.path) # {} THEN Result(ENOTEMPTY, tree)
        ELSE Result(0, Without(tree, { r.path }))

\* The text of fs->root, which the handlers put before every path.
BackingRoot == "/srv"

\* The length of the text of a path: "/" and a name per component.
RECURSIVE PathLen(_)
PathLen(p) == IF p = << >> THEN 0 ELSE 1 + Len(Head(p)) + PathLen(Tail(p))

\* The length of the text a link to target holds: hub_symlink stores
\* fs->root followed by the old path, which is "/" for the root.
LinkLen(target) ==
    Len(BackingRoot) + (IF target = << >> THEN 1 ELSE PathLen(target))

\* readlink(2) into a buffer of size bytes: res is the number of bytes
\* placed in the buffer, the length of the link's text cut to size, with
\* no terminating byte.
sys_readlink(tree, p, size) ==
    LET r == Namei(tree, p, FALSE)
    IN  IF r.err # 0 THEN Result(r.err, tree)
        ELSE IF ~Exists(tree, r.path) THEN Result(ENOENT, tree)
        ELSE IF ~IsSymlink(tree, r.path) THEN Result(EINVAL, tree)
        ELSE LET len == LinkLen(tree[r.path].to)
             IN  [err |-> 0, tree |-> tree,
                  res |-> IF len < size THEN len ELSE size]

\* stat(2) and the calls that fail as stat does (chmod, chown, utime,
\* utimensat, statvfs), truncate(2), opendir(3): links are
\* followed.
sys_stat(tree, p) ==
    LET r == Namei(tree, p, TRUE)
    IN  IF r.err # 0 THEN Result(r.err, tree)
        ELSE IF ~Exists(tree, r.path) THEN Result(ENOENT, tree)
        ELSE Result(0, tree)

sys_truncate(tree, p) ==
    LET r == Namei(tree, p, TRUE)
    IN  IF r.err # 0 THEN Result(r.err, tree)
        ELSE IF ~Exists(tree, r.path) THEN Result(ENOENT, tree)
        ELSE IF IsDir(tree, r.path) THEN Result(EISDIR, tree)
        ELSE Result(0, tree)

sys_opendir(tree, p) ==
    LET r == Namei(tree, p, TRUE)
    IN  IF r.err # 0 THEN Result(r.err, tree)
        ELSE IF ~Exists(tree, r.path) THEN Result(ENOENT, tree)
        ELSE IF ~IsDir(tree, r.path) THEN Result(ENOTDIR, tree)
        ELSE Result(0, tree)

\* rename(2).  The directories of both paths are resolved first, then the
\* old name is looked up; an old path that leads to the new one gives
\* EINVAL, a new path that leads to the old one ENOTEMPTY.
sys_rename(tree, p, q) ==
    LET from == Namei(tree, p, FALSE)
        onto == Namei(tree, q, FALSE)
        old == from.path
        new == onto.path
    IN  IF from.err # 0 THEN Result(from.err, tree)
        ELSE IF onto.err # 0 THEN Result(onto.err, tree)
        ELSE IF ~Exists(tree, old) THEN Result(ENOENT, tree)
        ELSE IF old # new /\ IsPrefix(old, new) THEN Result(EINVAL, tree)
        ELSE IF old # new /\ IsPrefix(new, old) THEN Result(ENOTEMPTY, tree)
        ELSE IF old = new THEN Result(0, tree)
        ELSE IF Exists(tree, new) /\ ~IsDir(tree, new) /\ IsDir(tree, old)
        THEN Result(ENOTDIR, tree)
        ELSE IF Exists(tree, new) /\ IsDir(tree, new) /\ ~IsDir(tree, old)
        THEN Result(EISDIR, tree)
        ELSE IF Exists(tree, new) /\ Children(tree, new) # {}
        THEN Result(ENOTEMPTY, tree)
        ELSE LET moved == { x \in DOMAIN tree : IsPrefix(old, x) }
                 kept == DOMAIN tree \ (moved \cup {new})
                 To(x) == new \o SubSeq(x, Len(old) + 1, Len(x))
             IN  Result(0, [ y \in kept \cup { To(x) : x \in moved } |->
                               IF y \in kept THEN tree[y]
                               ELSE tree[CHOOSE x \in moved : To(x) = y] ])

\* link(2): the old path is resolved, then the new one; a directory
\* cannot be linked.
sys_link(tree, p, q) ==
    LET from == Namei(tree, p, FALSE)
        onto == Namei(tree, q, FALSE)
    IN  IF from.err # 0 THEN Result(from.err, tree)
        ELSE IF ~Exists(tree, from.path) THEN Result(ENOENT, tree)
        ELSE IF onto.err # 0 THEN Result(onto.err, tree)
        ELSE IF Exists(tree, onto.path) THEN Result(EEXIST, tree)
        ELSE IF IsDir(tree, from.path) THEN Result(EPERM, tree)
        ELSE Result(0, With(tree, onto.path, tree[from.path]))

\* open(2) with the flags of hub_open_impl: links are followed, O_CREAT
\* makes a regular file where there is none, and a directory is opened
\* for reading only.
sys_open(tree, p, oflag) ==
    LET r == Namei(tree, p, TRUE)
    IN  IF r.err # 0 THEN Result(r.err, tree)
        ELSE IF ~Exists(tree, r.path)
        THEN IF "O_CREAT" \in oflag
             THEN Result(0, With(tree, r.path, File))
             ELSE Result(ENOENT, tree)
        ELSE IF IsDir(tree, r.path) /\ oflag # {}
        THEN Result(EISDIR, tree)
        ELSE Result(0, tree)

\* What a call on an open descriptor or directory stream can fail with
\* whatever it is called with.
FdErrnos == { EIO }

\* ftruncate(2) on a descriptor with open file description d: EINVAL
\* when it is not open for writing; a length above the file size limit
\* gives EFBIG.
sys_ftruncate(d, len) ==
    IF "O_WRONLY" \notin d.flags THEN { EINVAL }
    ELSE { 0 } \cup FdErrnos \cup (IF len > 0 THEN { EFBIG } ELSE {})

\* fallocate(2) with mode 0 and offset 0: EINVAL for a length of 0, then
\* EBADF for a descriptor not open for writing.
sys_fallocate(d, len) ==
    IF len <= 0 THEN { EINVAL }
    ELSE IF "O_WRONLY" \notin d.flags THEN { EBADF }
    ELSE { 0, EFBIG } \cup FdErrnos

\* The names, sizes and flags the extended attribute calls are handed: a
\* name in the user namespace and one without a namespace, a size of 0
\* (a query for the size needed) and a buffer of one byte.
XattrNames == { "user.x", "foo" }
XattrSizes == { 0, 1 }
XattrFlags == { "0", "XATTR_CREATE", "XATTR_REPLACE" }

\* The outcomes (errno, or 0) of an extended attribute call on a file
\* that exists.  The attributes the backing files carry are not part of
\* the state: the attribute may be set or not, its value and the list of
\* names may fit a buffer of one byte or not.  A name without a namespace
\* is refused (EOPNOTSUPP); XATTR_CREATE fails on an attribute that is
\* set (EEXIST), XATTR_REPLACE, getxattr and removexattr on one that is
\* not (ENODATA); a buffer too small gives ERANGE.
XattrErrnos(call, name, arg) ==
    IF call = "listxattr"
    THEN { 0 } \cup (IF arg # 0 THEN { ERANGE } ELSE {})
    ELSE IF name = "foo" THEN { EOPNOTSUPP }
    ELSE IF call = "setxattr"
    THEN { 0 } \cup (IF arg = "XATTR_CREATE" THEN { EEXIST } ELSE {})
               \cup (IF arg = "XATTR_REPLACE" THEN { ENODATA } ELSE {})
    ELSE IF call = "getxattr"
    THEN { 0, ENODATA } \cup (IF arg # 0 THEN { ERANGE } ELSE {})
    ELSE { 0, ENODATA }

\* The outcomes of an extended attribute call on path p; links are
\* followed, and the path is resolved before the name is looked at.
sys_xattr(tree, p, call, name, arg) ==
    LET e0 == StatErr(tree, p)
    IN  IF e0 # 0
        THEN { Result(e0, tree) }
        ELSE { Result(e, tree) : e \in XattrErrnos(call, name, arg) }

\* ------------------------------------------------------------------------
\* hub_open, hub_create, hub_release (file.c)
\* ------------------------------------------------------------------------
\* What open() can fail with whatever is at the path, and what close()
\* can fail with.
OpenErrnos == { EACCES }
CloseErrnos == { EINTR, EIO }

\* The open file description behind a descriptor: the access mode it was
\* opened with, and whether it is the descriptor of a directory stream
\* (DIR) that opendir made.  The descriptions after descriptor fd is
\* opened, and those left when only the descriptors fds stay open.
Description(oflag, stream) ==
    [flags |-> oflag \cap { "O_WRONLY" }, stream |-> stream]

Opened(descs, fd, d) ==
    [ x \in DOMAIN descs \cup {fd} |-> IF x = fd THEN d ELSE descs[x] ]

Closed(descs, fds) == [ x \in DOMAIN descs \cap fds |-> descs[x] ]

\* The lowest natural number not in S: the descriptor open() returns, and
\* the address calloc() returns.
LowestFree(S) ==
    CHOOSE n \in 0..Cardinality(S) :
        n \notin S /\ \A m \in 0..(n - 1) : m \in S

Remove(h, a) == [ x \in DOMAIN h \ {a} |-> h[x] ]

\* A hub_open_impl that aborts the process when calloc fails, as xcalloc
\* does.
OomAbortsAsXcalloc == TRUE

\* Lines 67-70: a failed calloc makes hub_open_impl return -ENOMEM; the
\* process goes on.
OomAborts == FALSE

\* An error path that does not free the handle.
CleanupNoFree(h, a) == h

\* Lines 101-106, for a handle whose open() failed: file->fd < 0, so no
\* close, and free(file).
Cleanup(h, a) == IF a # NULL THEN Remove(h, a) ELSE h

\* A release that forgets the descriptor.
NoClose(fds, fd) == fds

\* Line 196: close(file->fd).  On Linux the descriptor is released also
\* when close() returns an error.
Close(fds, fd) == fds \ {fd}

\* A release that reports success whatever close() returned.
ReleaseRetZero(err) == 0

\* Lines 189-201: ret of hub_release, from the errno of close (0: none).
ReleaseRet(err) == IF err # 0 THEN -err ELSE 0

\* The paths the dispatcher passes to the handlers, and the access modes
\* of info->flags: O_RDONLY, which is no flag, and O_WRONLY.
OperPaths == { << "nest" >> }
AccessModes == { {}, { "O_WRONLY" } }

\* Lines 61-77: hub_open_impl is entered with a path, addflags and a fresh
\* info, and allocates the handle; flags is addflags | info->flags.
OpenImplBegin(t, addflags) ==
    /\ main_pc = "serving"
    /\ ~aborted
    /\ fpc[t] = "idle"
    /\ opens < MaxOpens
    /\ opens' = opens + 1
    /\ \E p \in OperPaths : bpath' = [bpath EXCEPT ![t] = p]
    /\ \E mode \in AccessModes :
          flags' = [flags EXCEPT ![t] = addflags \cup mode]
    /\ fh' = [fh EXCEPT ![t] = NULL]
    /\ nclose' = [nclose EXCEPT ![t] = 0]
    /\ cerr' = [cerr EXCEPT ![t] = 0]
    /\ \/ /\ file' = [file EXCEPT ![t] = NULL]
          /\ ret' = [ret EXCEPT ![t] = -ENOMEM]
          /\ aborted' = OomAborts
          /\ fpc' = [fpc EXCEPT ![t] = "error"]
          /\ UNCHANGED heap
       \/ LET a == LowestFree(DOMAIN heap \cup {NULL}) IN
          /\ file' = [file EXCEPT ![t] = a]
          /\ heap' = [ x \in DOMAIN heap \cup {a} |->
                         IF x = a THEN [fd |-> -1] ELSE heap[x] ]
          /\ ret' = [ret EXCEPT ![t] = 0]
          /\ fpc' = [fpc EXCEPT ![t] = "open"]
          /\ UNCHANGED aborted
    /\ UNCHANGED uvars
    /\ UNCHANGED << fdtable, ofd, held, list, main_pc, g_uid_table, clock, ticks,
                    calls, tvars, op, granted, written, ncas, race >>

\* Lines 117-121: hub_open_impl(path, 0, 0, info).
hub_open(t) == OpenImplBegin(t, {})

\* Lines 110-115: hub_open_impl(path, O_CREAT, mode, info).
hub_create(t) == OpenImplBegin(t, { "O_CREAT" })

\* Lines 79-107: open() and what follows it, the publication of the
\* handle in info->fh or the error path; after a failed calloc, the error
\* path alone.
hub_open_impl(t) ==
    /\ main_pc = "serving"
    /\ ~aborted
    /\ fpc[t] \in { "open", "error" }
    /\ LET opened == sys_open(backing, bpath[t], flags[t]) IN
       \/ /\ fpc[t] = "error"
          /\ heap' = Cleanup(heap, file[t])
          /\ UNCHANGED << fdtable, ofd, held, fh, ret, backing >>
       \/ /\ fpc[t] = "open"
          /\ \E e \in OpenErrnos \cup { opened.err } :
                /\ e # 0
                /\ ret' = [ret EXCEPT ![t] = -e]
                /\ heap' = Cleanup(heap, file[t])
                /\ UNCHANGED << fdtable, ofd, held, fh, backing >>
       \/ LET fd == LowestFree(fdtable) IN
          /\ fpc[t] = "open"
          /\ opened.err = 0
          /\ backing' = opened.tree
          /\ fdtable' = fdtable \cup {fd}
          /\ ofd' = Opened(ofd, fd, Description(flags[t], FALSE))
          /\ heap' = [heap EXCEPT ![file[t]].fd = fd]
          /\ fh' = [fh EXCEPT ![t] = file[t]]
          /\ held' = held \cup { file[t] }
          /\ UNCHANGED ret
    /\ fpc' = [fpc EXCEPT ![t] = "idle"]
    /\ bpath' = [bpath EXCEPT ![t] = << >>]
    /\ flags' = [flags EXCEPT ![t] = {}]
    /\ UNCHANGED << argv, args, fs_root, str, appended, sn_ret, nappend, last >>
    /\ UNCHANGED << file, nclose, cerr, opens, list, main_pc, g_uid_table,
                    aborted, clock, ticks, calls, tvars, op, granted, written,
                    ncas, race >>

\* Lines 188-201: FUSE releases a handle it holds, once; the descriptor is
\* closed.
hub_release(t) ==
    /\ main_pc = "serving"
    /\ ~aborted
    /\ fpc[t] = "idle"
    /\ \E a \in held, e \in CloseErrnos \cup {0} :
          /\ held' = held \ {a}
          /\ file' = [file EXCEPT ![t] = a]
          /\ fdtable' = Close(fdtable, heap[a].fd)
          /\ ofd' = Closed(ofd, Close(fdtable, heap[a].fd))
          /\ nclose' = [nclose EXCEPT ![t] = 1]
          /\ cerr' = [cerr EXCEPT ![t] = e]
          /\ ret' = [ret EXCEPT ![t] = ReleaseRet(e)]
    /\ fpc' = [fpc EXCEPT ![t] = "close"]
    /\ UNCHANGED uvars
    /\ UNCHANGED << heap, fh, opens, bpath, flags, list, main_pc, g_uid_table,
                    aborted,
                    clock, ticks, calls, tvars, op, granted, written, ncas,
                    race >>

\* Lines 202-205: file->fd = -1, free(file), return ret.
hub_release_free(t) ==
    /\ main_pc = "serving"
    /\ ~aborted
    /\ fpc[t] = "close"
    /\ heap' = Remove(heap, file[t])
    /\ fpc' = [fpc EXCEPT ![t] = "idle"]
    /\ UNCHANGED uvars
    /\ UNCHANGED << fdtable, ofd, held, file, ret, fh, nclose, cerr, opens, bpath,
                    flags, list,
                    main_pc, g_uid_table, aborted, clock, ticks, calls, tvars,
                    op, granted, written, ncas, race >>

\* The state in which FUSE starts to serve: main() has called
\* throttle_init with the list of fs.c.
Serving ==
    /\ list = uid_config_list
    /\ main_pc = "serving"
    /\ g_uid_table = BuildTable(uid_config_list)
    /\ aborted = FALSE
    /\ clock = StartSec
    /\ ticks = 0
    /\ calls = 0
    /\ pc = [t \in Threads |-> "idle"]
    /\ uid = [t \in Threads |-> 0]
    /\ amt = [t \in Threads |-> Zero]
    /\ udata = [t \in Threads |-> NULL]
    /\ prev = [t \in Threads |-> Zero]
    /\ cur_period = [t \in Threads |-> 0]
    /\ avail = [t \in Threads |-> Zero]
    /\ delta = [t \in Threads |-> NoDelta]
    /\ op = [t \in Threads |-> "none"]
    /\ granted = [ u \in DOMAIN BuildTable(uid_config_list) |-> Zero ]
    /\ written = [ u \in DOMAIN BuildTable(uid_config_list) |-> NeverWritten ]
    /\ ncas = [t \in Threads |-> 0]
    /\ race = NoRace
    /\ heap = << >>
    /\ fdtable = StdFds
    /\ ofd = << >>
    /\ held = {}
    /\ fpc = [t \in Threads |-> "idle"]
    /\ file = [t \in Threads |-> NULL]
    /\ ret = [t \in Threads |-> 0]
    /\ fh = [t \in Threads |-> NULL]
    /\ nclose = [t \in Threads |-> 0]
    /\ cerr = [t \in Threads |-> 0]
    /\ opens = 0
    /\ bpath = [t \in Threads |-> << >>]
    /\ flags = [t \in Threads |-> {}]

FileInit == Serving /\ UtilIdle

FileNext ==
    \/ \E t \in Threads : hub_open(t)
    \/ \E t \in Threads : hub_create(t)
    \/ \E t \in Threads : hub_open_impl(t)
    \/ \E t \in Threads : hub_release(t)
    \/ \E t \in Threads : hub_release_free(t)

FileSpec == FileInit /\ [][FileNext]_vars

\* ------------------------------------------------------------------------
\* Long idle times.
\* ------------------------------------------------------------------------
\* No request arrives for WrapSecs seconds, 2^BITS_PER_PERIOD periods.
LongIdle ==
    /\ main_pc = "serving"
    /\ ~aborted
    /\ \A t \in Threads : pc[t] = "idle"
    /\ ticks < MaxTicks
    /\ clock' = clock + WrapSecs
    /\ ticks' = ticks + 1
    /\ race' = NoRace
    /\ UNCHANGED uvars
    /\ UNCHANGED << fvars, list, main_pc, g_uid_table, aborted, calls, tvars,
                    op, granted, written, ncas >>

WrapNext ==
    \/ throttle_init
    \/ LongIdle
    \/ \E t \in Threads : hub_read(t)
    \/ \E t \in Threads : hub_write(t)
    \/ \E t \in Threads : throttle_clock(t)
    \/ \E t \in Threads : throttle_wake(t)
    \/ \E t \in Threads : throttle_cas(t)
    \/ \E t \in Threads : hub_io(t)

WrapSpec == Init /\ [][WrapNext]_vars

\* ------------------------------------------------------------------------
\* setup_hub_args (fs.c)
\* ------------------------------------------------------------------------
\* The words of a command line after argv[0], and whether a word starts
\* with '-'.
ArgWords == { "-f", "-odebug", "/srv", "/mnt" }

StartsWithDash(w) == w \in { "-f", "-odebug" }

\* The command lines main() may be started with: argv[0] and up to
\* MaxArgs words.
CommandLines ==
    { << "hubfs" >> \o w : w \in UNION { [1..n -> ArgWords] : n \in 0..MaxArgs } }

\* Lines 60-68.
MANDATORY_OPTIONS ==
    << "-odefault_permissions", "-oallow_other", "-odirect_io",
       "-ohard_remove" >>

NUM_MANDATORY_OPTIONS == Len(MANDATORY_OPTIONS)

\* a[i] of a C array kept as a sequence.
At(a, i) == a[i + 1]

\* Lines 117-132: the array of args->argc + 1 pointers that calloc returns
\* zeroed, after the assignments of lines 124, 125-127, 128-130, 131 and
\* 132, in this order; indices as in C.
SetupArgv(argc, av) ==
    LET n == NUM_MANDATORY_OPTIONS + argc - 2
        a0 == [ i \in 0..n |-> NULL ]
        a1 == [ a0 EXCEPT ![0] = At(av, 0) ]
        a2 == [ i \in 0..n |->
                  IF \E k \in 0..(NUM_MANDATORY_OPTIONS - 1) : i = k + 1
                  THEN At(MANDATORY_OPTIONS, i - 1)
                  ELSE a1[i] ]
        a3 == [ i \in 0..n |->
                  IF \E k \in 1..(argc - 3) : i = NUM_MANDATORY_OPTIONS - 1 + k
                  THEN At(av, i - (NUM_MANDATORY_OPTIONS - 1))
                  ELSE a2[i] ]
        a4 == [ a3 EXCEPT ![n - 1] = At(av, argc - 2) ]
    IN  [ a4 EXCEPT ![n] = NULL ]

\* The outcome of setup_hub_args.
SetupDone(r) ==
    [op |-> "setup_hub_args", path |-> << >>, err |-> 0, ret |-> r,
     over |-> FALSE]

\* Line 111: when the inner strdup returns NULL the outer one is called
\* with NULL and reads through it: the process is killed where it
\* stands, *mount_point is NULL (line 105) and args as main() zeroed them.
SetupKilled ==
    /\ fs_root' = NULL
    /\ main_pc' = "killed"
    /\ UNCHANGED << args, last >>

\* Lines 140-150: the error path.
SetupError(r) ==
    /\ fs_root' = NULL
    /\ args' = [argc |-> 0, argv |-> NULL]
    /\ last' = SetupDone(r)
    /\ main_pc' = "done"

\* main, lines 209-211, and setup_hub_args, lines 100-151, called as
\* setup_hub_args(argc, argv, &args, &fs->root).
setup_hub_args ==
    /\ main_pc = "serving"
    /\ ~aborted
    /\ LET argc == Len(argv) IN
       IF \/ argc < 3
          \/ StartsWithDash(At(argv, argc - 2))
          \/ StartsWithDash(At(argv, argc - 1))
       THEN SetupError(EINVAL)
       ELSE \/ SetupKilled
            \/ SetupError(ENOMEM)
            \/ /\ fs_root' = At(argv, argc - 1)
               /\ args' = [ argc |-> NUM_MANDATORY_OPTIONS + argc - 2,
                             argv |-> SetupArgv(argc, argv) ]
               /\ last' = SetupDone(0)
               /\ main_pc' = "access"
    /\ UNCHANGED << argv, str, appended, sn_ret, nappend, backing >>
    /\ UNCHANGED << fvars, list, g_uid_table, aborted, clock, ticks, calls, tvars,
                    op, granted, written, ncas, race >>

\* main() has called throttle_init and is about to set up the arguments
\* of fuse_main.
ArgsInit ==
    /\ Serving
    /\ argv \in CommandLines
    /\ args = [argc |-> 0, argv |-> NULL]
    /\ fs_root = NULL
    /\ BufIdle
    /\ MetaIdle

ArgsSpec == ArgsInit /\ [][setup_hub_args]_vars

\* ------------------------------------------------------------------------
\* snappend (util.c)
\* ------------------------------------------------------------------------
\* The texts vsnprintf may format fmt and its arguments into.
TextChars == { "a", "b" }

Texts == UNION { [1..n -> TextChars] : n \in 0..MaxText }

Min(a, b) == IF a < b THEN a ELSE b

\* strlen: the index of the first terminator.
strlen(mem) ==
    CHOOSE n \in DOMAIN mem : mem[n] = NUL /\ \A i \in 0..(n - 1) : mem[i] # NUL

\* vsnprintf(mem + at, size, ...) for the formatted text: at most size - 1
\* characters and a terminator are written, nothing when size is 0.
vsnprintf(mem, at, size, text) ==
    IF size = 0
    THEN mem
    ELSE LET n == Min(Len(text), size - 1) IN
         [ i \in DOMAIN mem |->
             IF i >= at /\ i < at + n THEN text[i - at + 1]
             ELSE IF i = at + n THEN NUL
             ELSE mem[i] ]

\* A snappend that passes the size of the whole buffer to vsnprintf.
RoomWhole(str_len, slen) == str_len

\* Line 53: the size passed to vsnprintf, str_len - slen.
Room(str_len, slen) == str_len - slen

\* Lines 48-55: the buffer after snappend(mem, str_len, fmt, ...), and the
\* value it returns.
snappend_str(mem, str_len, text) ==
    LET slen == strlen(mem) IN
    IF slen >= str_len + 1
    THEN mem
    ELSE vsnprintf(mem, slen, Room(str_len, slen), text)

snappend_ret(mem, str_len, text) ==
    IF strlen(mem) >= str_len + 1 THEN -ENAMETOOLONG ELSE 0

\* snappend(str, BufLen, fmt, ...) with arguments that format into text.
snappend_call(text) ==
    /\ nappend < MaxAppends
    /\ nappend' = nappend + 1
    /\ str' = snappend_str(str, BufLen, text)
    /\ sn_ret' = snappend_ret(str, BufLen, text)
    /\ appended' = appended \o text
    /\ UNCHANGED << argv, args, fs_root, backing, last >>
    /\ UNCHANGED << fvars, list, main_pc, g_uid_table, aborted, clock, ticks,
                    calls, tvars, op, granted, written, ncas, race >>

snappend == \E text \in Texts : snappend_call(text)

\* The buffers that hold the empty string: a terminator at index 0 and
\* any bytes after it; the canary follows the buffer.
EmptyBuffers ==
    { m \in [ 0..(MemLen - 1) -> { NUL, "x", Canary } ] :
        /\ m[0] = NUL
        /\ \A i \in 0..(MemLen - 1) : m[i] = Canary <=> i >= BufLen }

BufInit ==
    /\ Serving
    /\ ArgsIdle
    /\ MetaIdle
    /\ str \in EmptyBuffers
    /\ appended = << >>
    /\ sn_ret = 0
    /\ nappend = 0

BufSpec == BufInit /\ [][snappend]_vars

\* ------------------------------------------------------------------------
\* The handlers of hub_oper other than read and write (meta.c, file.c)
\* ------------------------------------------------------------------------
\* The pattern of the handlers: ret = 0; if (call(...) < 0) ret = -errno;
\* return ret.
RetErrno(err) == IF err # 0 THEN -err ELSE 0

\* A handler has run on path p: r is what its system call did, val what
\* the handler returned, over whether it wrote outside the memory it was
\* given.  No handler but hub_read and hub_write calls throttle().
Returned(name, p, r, val, over) ==
    /\ main_pc = "serving"
    /\ ~aborted
    /\ last' = [op |-> name, path |-> p, err |-> r.err, ret |-> val,
                over |-> over]
    /\ backing' = r.tree
    /\ UNCHANGED << argv, args, fs_root, str, appended, sn_ret, nappend >>
    /\ UNCHANGED << heap, held, fpc, file, ret, fh, nclose, cerr, opens, bpath,
                    flags, list, main_pc, g_uid_table, aborted, clock, ticks,
                    calls, tvars, op, granted, written, ncas, race >>

\* A handler that stays within the memory it was given.
Dispatched(name, p, r, val) == Returned(name, p, r, val, FALSE)

\* The process is killed by a signal inside a handler: the handler
\* returns nothing and no thread of the process takes another step.
HandlerKilled ==
    /\ main_pc = "serving"
    /\ ~aborted
    /\ main_pc' = "killed"
    /\ UNCHANGED << list, g_uid_table, aborted, clock, ticks, calls, tvars,
                    op, granted, written, ncas, race, fvars, uvars >>

\* A handler that opens and closes no descriptor.
Handled(name, p, r, val) ==
    Dispatched(name, p, r, val) /\ UNCHANGED << fdtable, ofd >>

Forward(name, p, r) == Handled(name, p, r, RetErrno(r.err))

\* A call on an open descriptor or stream: it fails with one of errnos or
\* succeeds.
OnHandle(name, errnos) ==
    \E e \in errnos \cup {0} : Forward(name, << >>, Result(e, backing))

\* meta.c, in the order of the file.
hub_getattr == \E p \in OperPaths : Forward("getattr", p, sys_stat(backing, p))

\* The sizes of the buffer handed to hub_readlink: none, one byte, the
\* length of the text of a link to an entry of the root, and PATH_MAX.
ReadlinkSizes == { 0, 1, LinkLen(<< "nest" >>), PATH_MAX }

\* Lines 56-83.  Line 76 stores the terminating byte at buf[res]: when
\* readlink filled the buffer (res = size) that is the byte after the
\* buffer, and the handler either returns 0 having overwritten memory
\* that is not the caller's, or the process is killed by the store.
hub_readlink ==
    \E p \in OperPaths, size \in ReadlinkSizes :
        IF size <= 0
        THEN Handled("readlink", p, Result(0, backing), 0)
        ELSE LET r == sys_readlink(backing, p, size) IN
             IF r.err # 0
             THEN Forward("readlink", p, r)
             ELSE IF r.res < size
             THEN Handled("readlink", p, Result(0, backing), 0)
             ELSE \/ /\ Returned("readlink", p, Result(0, backing), 0, TRUE)
                     /\ UNCHANGED << fdtable, ofd >>
                  \/ HandlerKilled

hub_mknod ==
    \E p \in OperPaths : Forward("mknod", p, sys_create(backing, p, File))

hub_mkdir ==
    \E p \in OperPaths : Forward("mkdir", p, sys_create(backing, p, Dir))

hub_unlink == \E p \in OperPaths : Forward("unlink", p, sys_unlink(backing, p))

hub_rmdir == \E p \in OperPaths : Forward("rmdir", p, sys_rmdir(backing, p))

\* Lines 147-162: symlink(fs->root + oldpath, fs->root + newpath); the
\* link made points to a path below the backing root, or to the root.
hub_symlink ==
    \E p \in OperPaths \cup { << >> }, q \in OperPaths :
        Forward("symlink", q, sys_create(backing, q, Symlink(p)))

\* Line 178: return 0.
hub_rename ==
    \E p, q \in OperPaths :
        Handled("rename", p, sys_rename(backing, p, q), 0)

hub_link ==
    \E p, q \in OperPaths : Forward("link", q, sys_link(backing, p, q))

hub_chmod == \E p \in OperPaths : Forward("chmod", p, sys_stat(backing, p))

hub_chown == \E p \in OperPaths : Forward("chown", p, sys_stat(backing, p))

\* Line 240: return 0.
hub_truncate ==
    \E p \in OperPaths : Handled("truncate", p, sys_truncate(backing, p), 0)

hub_utime == \E p \in OperPaths : Forward("utime", p, sys_stat(backing, p))

hub_statfs == \E p \in OperPaths : Forward("statfs", p, sys_stat(backing, p))

\* Lines 306-308, 330-332, 359-361: a call that succeeds returns a size
\* or 0, and ret stays 0.
hub_setxattr ==
    \E p \in OperPaths, name \in XattrNames, xflag \in XattrFlags :
        \E r \in sys_xattr(backing, p, "setxattr", name, xflag) :
            Forward("setxattr", p, r)

hub_getxattr ==
    \E p \in OperPaths, name \in XattrNames, size \in XattrSizes :
        \E r \in sys_xattr(backing, p, "getxattr", name, size) :
            Forward("getxattr", p, r)

hub_listxattr ==
    \E p \in OperPaths, size \in XattrSizes :
        \E r \in sys_xattr(backing, p, "listxattr", "", size) :
            Forward("listxattr", p, r)

\* Line 379: return 0.
hub_removexattr ==
    \E p \in OperPaths, name \in XattrNames :
        \E r \in sys_xattr(backing, p, "removexattr", name, 0) :
            Handled("removexattr", p, r, 0)

\* Lines 390-395: opendir opens a descriptor of the process for the
\* stream it returns, and the stream goes into info->fh.
hub_opendir ==
    \E p \in OperPaths :
        LET r == sys_opendir(backing, p)
            fd == LowestFree(fdtable)
        IN  /\ Dispatched("opendir", p, r, RetErrno(r.err))
            /\ IF r.err = 0
               THEN /\ fdtable' = fdtable \cup {fd}
                    /\ ofd' = Opened(ofd, fd, Description({}, TRUE))
               ELSE UNCHANGED << fdtable, ofd >>

\* The directory streams that are open, each known by its descriptor:
\* the info->fh FUSE holds between opendir and releasedir.
Streams == { d \in DOMAIN ofd : ofd[d].stream }

\* The offsets FUSE hands to hub_readdir: the start of the directory, a
\* position of an earlier telldir, and one that is no position.
DirOffsets == { 0, 1, -1 }

\* Lines 410-412: errno is cleared and, when offset is not 0, seekdir
\* is called; its lseek fails with EINVAL on a negative offset and
\* leaves the stream where it was.  The errno this leaves.
SeekdirErrno(offset) == IF offset < 0 THEN EINVAL ELSE 0

\* Lines 401-457.  errno is not cleared again after line 410, so inside
\* the loop it holds what seekdir left or what a filler call of an
\* earlier round left (ENOMEM).  When the filler is full the handler
\* returns 0 (lines 433-435, 453-455) whatever errno holds; when readdir
\* returns NULL it returns -errno (lines 415-419), the error of readdir
\* itself or the stale one, and 0 only when errno is still 0.
hub_readdir ==
    /\ Streams # {}
    /\ \E offset \in DirOffsets, full \in BOOLEAN :
          \E stale \in { SeekdirErrno(offset), ENOMEM } :
              IF full
              THEN Handled("readdir", << >>, Result(stale, backing), 0)
              ELSE \E e \in FdErrnos \cup { stale } :
                      Forward("readdir", << >>, Result(e, backing))

\* Lines 461-469: closedir closes the descriptor of the stream, also when
\* it reports an error.
hub_releasedir ==
    \E dp \in Streams, e \in FdErrnos \cup {0} :
        /\ Dispatched("releasedir", << >>, Result(e, backing), RetErrno(e))
        /\ fdtable' = fdtable \ {dp}
        /\ ofd' = Closed(ofd, fdtable \ {dp})

\* Lines 472-489: fsync(dirfd(dp)), or with datasync
\* fdatasync(dirfd(dp) < 0), a call on descriptor 0, the standard input,
\* which fails with EINVAL when that cannot be synchronised.
hub_fsyncdir ==
    /\ Streams # {}
    /\ \E datasync \in BOOLEAN :
          OnHandle("fsyncdir", IF datasync THEN { EINVAL } ELSE FdErrnos)

hub_utimens == \E p \in OperPaths : Forward("utimens", p, sys_stat(backing, p))

\* file.c.  FUSE passes a handle it holds.
hub_fgetattr == held # {} /\ OnHandle("fgetattr", FdErrnos)

\* A flush that syncs the backing file and reports the failure.
FlushRetOfSync == -EIO

\* Line 183: return 0.
FlushRet == 0

\* Lines 170-184: nothing is flushed.
hub_flush == held # {} /\ Handled("flush", << >>, Result(0, backing), FlushRet)

hub_fsync == held # {} /\ OnHandle("fsync", FdErrnos)

\* The lengths ftruncate and fallocate are called with.
FileLens == { 0, 1 }

\* Lines 233-235 and 247-249, on the descriptor of the handle.
hub_ftruncate ==
    \E h \in held, len \in FileLens :
        \E e \in sys_ftruncate(ofd[heap[h].fd], len) :
            Forward("ftruncate", << >>, Result(e, backing))

hub_fallocate ==
    \E h \in held, len \in FileLens :
        \E e \in sys_fallocate(ofd[heap[h].fd], len) :
            Forward("fallocate", << >>, Result(e, backing))

\* fuse_main serves with an empty backing root.  In this specification
\* the dispatcher opens or creates one file, on its second thread, issues
\* one read or write on the handle it holds, on its first thread, and
\* releases the handle when no read or write is in progress; it opens
\* one directory stream at a time, before the file; the other operations
\* come at any time.
OperInit ==
    /\ Serving
    /\ ArgsIdle
    /\ BufIdle
    /\ backing = << >>
    /\ last = NoOp

OperNext ==
    \/ hub_read(1) /\ calls = 0 /\ held # {}
    \/ hub_write(1) /\ calls = 0 /\ held # {}
    \/ \E t \in Threads : throttle_clock(t)
    \/ \E t \in Threads : throttle_cas(t)
    \/ \E t \in Threads : hub_io(t)
    \/ hub_open(2) /\ opens = 0 /\ Streams = {}
    \/ hub_create(2) /\ opens = 0 /\ Streams = {}
    \/ \E t \in Threads : hub_open_impl(t)
    \/ \E t \in Threads : hub_release(t) /\ pc[1] = "idle"
    \/ \E t \in Threads : hub_release_free(t)
    \/ hub_fgetattr
    \/ hub_flush
    \/ hub_fsync
    \/ hub_ftruncate
    \/ hub_fallocate
    \/ hub_getattr
    \/ hub_readlink
    \/ hub_mknod
    \/ hub_mkdir
    \/ hub_unlink
    \/ hub_rmdir
    \/ hub_symlink
    \/ hub_rename
    \/ hub_link
    \/ hub_chmod
    \/ hub_chown
    \/ hub_truncate
    \/ hub_utime
    \/ hub_statfs
    \/ hub_setxattr
    \/ hub_getxattr
    \/ hub_listxattr
    \/ hub_removexattr
    \/ hub_opendir /\ Streams = {} /\ opens = 0
    \/ hub_readdir
    \/ hub_releasedir
    \/ hub_fsyncdir
    \/ hub_utimens

OperSpec == OperInit /\ [][OperNext]_vars

\* ------------------------------------------------------------------------
\* recursive_unlink (util.c)
\* ------------------------------------------------------------------------
\* Line 203: the names readdir returns for directory p.
Entries(tree, p) == { ".", ".." } \cup { q[Len(q)] : q \in Children(tree, p) }

\* Lines 204-209: the loop goes on to the next entry when
\* strcmp(de->d_name, ".") is not 0, and when strcmp(de->d_name, "..") is
\* not 0.
Skipped(name) == name # "." \/ name # ".."

\* The path openat(fd, name, ...) opens for an entry of directory p.
Resolve(p, name) ==
    IF name = "." THEN p
    ELSE IF name = ".." THEN Parent(p)
    ELSE p \o << name >>

\* unlinkat(dirfd, name, 0) for a name that leads to p: a relative name
\* is looked up in the directory of the descriptor, and -1 is no
\* descriptor (EBADF); an absolute name is looked up whatever dirfd is.
sys_unlinkat(tree, dirfd, p, relative) ==
    IF relative /\ dirfd < 0
    THEN Result(EBADF, tree)
    ELSE sys_unlink(tree, p)

RECURSIVE recursive_unlink_helper(_, _, _, _)
RECURSIVE unlink_entries(_, _, _, _)

\* Lines 203-212: the helper is called with the descriptor fd of the
\* directory p for the entries that are not skipped, until one call
\* fails.
unlink_entries(tree, fd, p, names) ==
    IF names = {}
    THEN Result(0, tree)
    ELSE LET name == CHOOSE n \in names : TRUE
             r == recursive_unlink_helper(tree, fd, Resolve(p, name), TRUE)
         IN  IF r.err # 0
             THEN r
             ELSE unlink_entries(r.tree, fd, p, names \ {name})

\* Lines 168-222: ret and the file system after the helper is called
\* with dirfd and a name, relative or not, that leads to p; a relative
\* name is opened in the directory of dirfd, or in the working directory,
\* the backing root, when dirfd < 0.  A name that cannot be opened gives
\* the errno of open, a file is unlinked through dirfd, the entries of a
\* directory are visited.
recursive_unlink_helper(tree, dirfd, p, relative) ==
    IF StatErr(tree, p) # 0
    THEN Result(StatErr(tree, p), tree)
    ELSE IF ~IsDir(tree, Target(tree, p))
    THEN sys_unlinkat(tree, dirfd, p, relative)
    ELSE unlink_entries(tree, IF dirfd < 0 THEN LowestFree(StdFds) ELSE dirfd + 1,
                        Target(tree, p),
                        { n \in Entries(tree, Target(tree, p)) : ~Skipped(n) })

\* The paths recursive_unlink is called on, and the trees below the root
\* it is called in.
UnlinkPaths ==
    { << "nest" >>, << "nest", "nest2" >>, << "nest", "nest3" >>,
      << "nest", "nest2", "f" >>, << "subdir1" >> }

Trees ==
    { t \in UNION { [ S -> { Dir, File } ] : S \in SUBSET UnlinkPaths } :
        \A p \in DOMAIN t : IsDir(t, Parent(p)) }

\* Lines 224-227: recursive_unlink(name) returns the helper's -ret; the
\* name is absolute or relative to the working directory.
recursive_unlink ==
    \E p \in UnlinkPaths, relative \in BOOLEAN :
        LET r == recursive_unlink_helper(backing, -1, p, relative) IN
        /\ last' = [op |-> "recursive_unlink", path |-> p, err |-> r.err,
                    ret |-> -r.err, over |-> FALSE]
        /\ backing' = r.tree
        /\ UNCHANGED << argv, args, fs_root, str, appended, sn_ret, nappend >>
        /\ UNCHANGED << fvars, list, main_pc, g_uid_table, aborted, clock,
                        ticks, calls, tvars, op, granted, written, ncas, race >>

UnlinkInit ==
    /\ Serving
    /\ ArgsIdle
    /\ BufIdle
    /\ backing \in Trees
    /\ last = NoOp

UnlinkSpec == UnlinkInit /\ [][recursive_unlink]_vars

\* ------------------------------------------------------------------------
\* Vocabulary of the properties.
\* ------------------------------------------------------------------------
Records == DOMAIN g_uid_table

\* The two fields of a record's packed state, and its allocation.
Remaining(r) == ShiftRight(g_uid_table[r].cur)
Tag(r) == PeriodOf(g_uid_table[r].cur)
Full(r) == g_uid_table[r].full

\* The record a uid is to be accounted against.
RecordFor(u) == IF u \in Records THEN u ELSE UNKNOWN_UID

\* Thread t is inside throttle().
InThrottle(t) == pc[t] \in { "clock", "cas", "sleep" }

\* This step is the successful compare-and-swap of thread t.
GrantStep(t) == pc[t] = "cas" /\ pc'[t] = "granted"

\* ------------------------------------------------------------------------
\* C1.  Quota ceiling: the bytes granted on a record under one period tag
\* never exceed the record's allocation.  (Stated as the claim has it; the
\* code violates it.)
\* ------------------------------------------------------------------------
C1_QuotaCeiling == \A r \in Records : Leq(granted[r], Full(r))

\* ------------------------------------------------------------------------
\* C2.  The remaining-bytes field of every record is at most the record's
\* allocation.  (Stated as the claim has it; the code violates it.)
\* ------------------------------------------------------------------------
C2_RemainingWithinFull == \A r \in Records : Leq(Remaining(r), Full(r))

\* ------------------------------------------------------------------------
\* C3.  Per-identity isolation: once the table is built, no step changes
\* the set of records or any record's full, and a record's packed state
\* changes only in the successful compare-and-swap of a thread whose uid
\* is accounted against that record.
\* ------------------------------------------------------------------------
C3_IsolationStep ==
    main_pc = "serving" =>
        /\ DOMAIN g_uid_table' = Records
        /\ \A r \in Records :
              /\ g_uid_table'[r].full = Full(r)
              /\ g_uid_table'[r].cur # g_uid_table[r].cur =>
                    \E t \in Threads : GrantStep(t) /\ r = RecordFor(uid[t])

C3_Isolation == [][C3_IsolationStep]_vars

\* A grant has changed the record of one configured uid while the record
\* of the fallback is still as throttle_init left it.
C3_Witness ==
    /\ main_pc = "serving"
    /\ \E t \in Threads :
          /\ pc[t] = "granted"
          /\ uid[t] \in Records
          /\ g_uid_table[uid[t]].cur # Zero
    /\ g_uid_table[UNKNOWN_UID].cur = Zero

\* ------------------------------------------------------------------------
\* C4.  Renewal without banking: a grant of amount a made on a word whose
\* tag differs from the current period stores full - a as the remaining
\* bytes.  (Stated as the claim has it; the code violates it.)
\* ------------------------------------------------------------------------
C4_RenewalStep ==
    \A t \in Threads :
        (GrantStep(t) /\ cur_period[t] # PeriodOf(prev[t])) =>
            /\ Leq(amt[t], Full(udata[t]))
            /\ ShiftRight(g_uid_table'[udata[t]].cur)
                  = Sub(Full(udata[t]), amt[t])

C4_Renewal == [][C4_RenewalStep]_vars

\* ------------------------------------------------------------------------
\* C5.  Fatal oversize request: a call whose amount exceeds the allocation
\* of its record never reaches the compare-and-swap and is never granted.
\* (Stated as the claim has it; the code violates it.)
\* ------------------------------------------------------------------------
C5_OversizeNeverGranted ==
    \A t \in Threads :
        pc[t] \in { "cas", "granted" } => Leq(amt[t], Full(udata[t]))

\* ------------------------------------------------------------------------
\* C6.  No double grant, no dropped grant under race.  While two calls race
\* on one record for amounts that together are exactly the budget left and
\* the period has not changed: neither call waits or aborts, the budget
\* left on the record always equals the amounts of the calls not yet
\* granted (so it is exactly 0 once both are granted), and after both are
\* granted no further request of 1 byte or more is granted on the record.
\* (Stated as the claim has it; the code violates it.)
\* ------------------------------------------------------------------------
RECURSIVE SumAmt(_)
SumAmt(S) ==
    IF S = {} THEN Zero
    ELSE LET t == CHOOSE x \in S : TRUE IN Add(amt[t], SumAmt(S \ {t}))

C6_RaceInv ==
    race.rec # NULL =>
        /\ \A t \in race.left : pc[t] \in { "clock", "cas" }
        /\ Budget(Full(race.rec), g_uid_table[race.rec].cur, CurPeriod(clock))
              = SumAmt(race.left)
        /\ race.left = {} =>
              /\ Remaining(race.rec) = Zero
              /\ Tag(race.rec) = CurPeriod(clock)

C6_FurtherStep ==
    (race.rec # NULL /\ race.left = {}) =>
        \A t \in Threads :
            (GrantStep(t) /\ udata[t] = race.rec) => amt[t] = Zero

C6_ExactRace == []C6_RaceInv /\ [][C6_FurtherStep]_vars

\* ------------------------------------------------------------------------
\* C7.  Fallback routing: a call is accounted against the record of its
\* uid when the uid is configured and against the UNKNOWN_UID record
\* otherwise, and the bytes granted in one period on the UNKNOWN_UID
\* record, that is to all unconfigured uids together, never exceed that
\* record's allocation.  (Stated as the claim has it; the code violates
\* the second half.)
\* ------------------------------------------------------------------------
C7_FallbackRouting ==
    /\ \A t \in Threads :
          (InThrottle(t) \/ pc[t] = "granted") => udata[t] = RecordFor(uid[t])
    /\ UNKNOWN_UID \in Records =>
          Leq(granted[UNKNOWN_UID], Full(UNKNOWN_UID))

\* ------------------------------------------------------------------------
\* C8.  Blocking on exhaustion: when requests within the allocation F have
\* been granted on a record in a period, a further request b <= F that
\* would take the total over F is not granted on a word of that period.
\* (Stated as the claim has it; the code violates it.)
\* ------------------------------------------------------------------------
C8_BlockStep ==
    \A t \in Threads :
        LET r == udata[t] IN
        ~ /\ GrantStep(t)
          /\ Tag(r) = cur_period[t]
          /\ granted[r] # Zero
          /\ Leq(granted[r], Full(r))
          /\ Leq(amt[t], Full(r))
          /\ Less(Full(r), Add(granted[r], amt[t]))

C8_BlockedUntilRollover == [][C8_BlockStep]_vars

\* ------------------------------------------------------------------------
\* C9.  Stealing from the shared pool: a call of a configured uid whose
\* own allocation is used up in the current period does not start to wait
\* when the pool of the unconfigured uids, the UNKNOWN_UID record, still
\* has the requested bytes available in that period.  (Stated as the claim
\* has it; the code has no such path.)
\* ------------------------------------------------------------------------
C9_StealStep ==
    \A t \in Threads :
        LET r == udata[t] IN
        ~ /\ pc[t] = "clock"
          /\ pc'[t] = "sleep"
          /\ uid[t] \in Records
          /\ r # UNKNOWN_UID
          /\ Tag(r) = cur_period'[t]
          /\ Leq(Full(r), granted[r])
          /\ Leq(amt[t], Avail(Full(UNKNOWN_UID), g_uid_table[UNKNOWN_UID].cur,
                                cur_period'[t]))

C9_StealInsteadOfWait == [][C9_StealStep]_vars

\* ------------------------------------------------------------------------
\* C10.  No partial satisfaction: a call is at or past its compare-and-swap
\* only with an available budget of at least amt, it has returned only
\* after exactly one successful compare-and-swap of its own, and that
\* compare-and-swap left the budget it took to be available, less exactly
\* amt, as the remaining bytes of the record.  (Stated as the claim has it;
\* the code violates the last part.)
\* ------------------------------------------------------------------------
C10_Inv ==
    \A t \in Threads :
        /\ pc[t] \in { "cas", "granted" } => Leq(amt[t], avail[t])
        /\ pc[t] = "granted" => ncas[t] = 1
        /\ InThrottle(t) => ncas[t] = 0

C10_GrantStep ==
    \A t \in Threads :
        GrantStep(t) =>
            ShiftRight(g_uid_table'[udata[t]].cur) = Sub(avail[t], amt[t])

C10_NoPartialSatisfaction == []C10_Inv /\ [][C10_GrantStep]_vars
\* ------------------------------------------------------------------------
\* C11.  Eventual grant without contention.  When no other call is in
\* progress on the same record: a call reads the clock and then either
\* aborts, waits or reaches its compare-and-swap; its compare-and-swap
\* succeeds; a call that waits while the clock still advances is granted
\* (unless the process aborts meanwhile); and a call never decides to wait
\* in two different periods, that is, it waits over one period boundary at
\* most.
\* ------------------------------------------------------------------------
\* The clock of the run still advances past the end of the longest
\* interval thread t can ask to sleep for in the period it has read: one
\* second past the end of that period.
ClockKeepsAdvancing(t) ==
    clock + (MaxTicks - ticks) * SECS_PER_PERIOD
       >= (cur_period[t] + 1) * SECS_PER_PERIOD + 1

C11_OneBoundaryStep ==
    \A t \in Threads :
        (pc[t] = "clock" /\ pc'[t] = "sleep" /\ delta[t] # NoDelta) =>
            cur_period'[t] = cur_period[t]

C11_EventualGrant ==
    /\ [][C11_OneBoundaryStep]_vars
    /\ \A t \in Threads :
          /\ (pc[t] = "clock") ~> (pc[t] \in { "cas", "sleep" } \/ aborted)
          /\ (pc[t] = "cas") ~> (pc[t] = "granted" \/ aborted)
          /\ (pc[t] = "sleep" /\ ClockKeepsAdvancing(t))
                 ~> (pc[t] = "granted" \/ aborted)

\* A call within its allocation has waited for the next period and has
\* then been granted.
C11_Witness ==
    \E t \in Threads :
        /\ pc[t] = "granted"
        /\ ValidInterval(delta[t])
        /\ delta[t] # NoDelta
        /\ Leq(amt[t], Full(udata[t]))
        /\ Alone

\* ------------------------------------------------------------------------
\* C12.  Sleep length: the interval a call asks nanosleep for is the time
\* from its clock reading to the boundary of the next period, hence more
\* than 0 and at most SECS_PER_PERIOD seconds.  (Stated as the claim has
\* it; the code asks for one second more.)
\* ------------------------------------------------------------------------
NSEC_PER_SEC == 1000000000

\* The reading a call that goes to sleep has taken: the second is that of
\* the clock and the nanoseconds are those line 171 subtracted.
ReadingOf(d) == [tv_sec |-> clock, tv_nsec |-> NSEC_PER_SEC - d.tv_nsec]

\* The time from a reading to the end of its period, seconds and
\* nanoseconds.
TimeToBoundary(ts) ==
    LET boundary == ((ts.tv_sec \div SECS_PER_PERIOD) + 1) * SECS_PER_PERIOD
    IN  IF ts.tv_nsec = 0
        THEN [tv_sec |-> boundary - ts.tv_sec, tv_nsec |-> 0]
        ELSE [tv_sec |-> boundary - ts.tv_sec - 1,
              tv_nsec |-> NSEC_PER_SEC - ts.tv_nsec]

\* An interval with its nanoseconds carried into the seconds.
Carried(d) ==
    [tv_sec |-> d.tv_sec + (d.tv_nsec \div NSEC_PER_SEC),
     tv_nsec |-> d.tv_nsec % NSEC_PER_SEC]

C12_SleepStep ==
    \A t \in Threads :
        (pc[t] = "clock" /\ pc'[t] = "sleep") =>
            LET asked == Carried(delta'[t]) IN
            /\ asked = TimeToBoundary(ReadingOf(delta'[t]))
            /\ asked.tv_sec > 0 \/ (asked.tv_sec = 0 /\ asked.tv_nsec > 0)
            /\ \/ asked.tv_sec < SECS_PER_PERIOD
               \/ asked.tv_sec = SECS_PER_PERIOD /\ asked.tv_nsec = 0

C12_SleepLength == [][C12_SleepStep]_vars

\* ------------------------------------------------------------------------
\* C13.  Renewal for any number of elapsed periods: when a call reads the
\* clock k >= 1 periods after the period in which the word it holds was
\* written, for any k and also for k a multiple of 2^BITS_PER_PERIOD, it
\* takes the word to be stale and the full allocation to be available.
\* (Stated as the claim has it; the code violates it.)
\* ------------------------------------------------------------------------
C13_RenewalStep ==
    \A t \in Threads :
        LET r == udata[t] IN
        (/\ pc[t] = "clock"
         /\ pc'[t] # "clock"
         /\ written[r] # NeverWritten
         /\ written[r] < clock \div SECS_PER_PERIOD
         /\ prev[t] = g_uid_table[r].cur) =>
            /\ cur_period'[t] # PeriodOf(prev[t])
            /\ avail'[t] = Full(r)

C13_RenewalAnyK == [][C13_RenewalStep]_vars

\* ------------------------------------------------------------------------
\* C14.  Full budget at start: the first call on a record, for an amount
\* within the record's allocation, goes from its clock reading to the
\* compare-and-swap without waiting and without aborting, whatever the
\* current period is, period 0 included.  (Stated as the claim has it; the
\* code violates it in period 0.)
\* ------------------------------------------------------------------------
C14_FirstCallStep ==
    \A t \in Threads :
        LET r == udata[t] IN
        (/\ pc[t] = "clock"
         /\ pc'[t] # "clock"
         /\ written[r] = NeverWritten
         /\ Leq(amt[t], Full(r))) =>
            pc'[t] = "cas"

C14_FullBudgetAtStart == [][C14_FirstCallStep]_vars

\* ------------------------------------------------------------------------
\* C15.  throttle_init aborts whenever the list has no entry for
\* UNKNOWN_UID; when the list has one, at any position, it does not abort
\* and leaves one record per uid of the list, with full as configured;
\* and no later step adds or removes a record or changes a full.
\* ------------------------------------------------------------------------
ConfiguredUids == { list[i].uid : i \in 1..Len(list) }

\* This step is throttle_init.
InitReturns == main_pc = "start" /\ main_pc' # "start"

\* This step is a throttle_init in which htable_alloc, the xcalloc of a
\* record or htable_put fails (throttle.c lines 103-120).
InitAllocFails == main_pc = "start" /\ main_pc' = "oom"

\* The table after the step holds the list: one record per configured
\* uid, with full as configured.
TableHoldsList ==
    /\ DOMAIN g_uid_table' = ConfiguredUids
    /\ \A i \in 1..Len(list) : g_uid_table'[list[i].uid].full = list[i].full

C15_ClaimedStep ==
    InitReturns =>
        /\ UNKNOWN_UID \notin ConfiguredUids => aborted'
        /\ UNKNOWN_UID \in ConfiguredUids => (~aborted' /\ TableHoldsList)

C15_KeepStep ==
    main_pc = "serving" =>
        /\ DOMAIN g_uid_table' = DOMAIN g_uid_table
        /\ \A r \in DOMAIN g_uid_table :
              g_uid_table'[r].full = g_uid_table[r].full

C15_InitAlwaysCompletes == [][C15_ClaimedStep /\ C15_KeepStep]_vars

\* C15 as amended: throttle_init aborts exactly when the list has no entry
\* for UNKNOWN_UID or an allocation fails (htable_alloc, the xcalloc of a
\* record, htable_put), the latter also with UNKNOWN_UID in the list;
\* when it does not abort it leaves one record per uid of the list, with
\* full as configured, wherever the UNKNOWN_UID entry stands; and no later
\* step adds or removes a record or changes a full.
C15_InitStep ==
    InitReturns =>
        /\ aborted' <=> (UNKNOWN_UID \notin ConfiguredUids \/ InitAllocFails)
        /\ ~aborted' => TableHoldsList

C15_ThrottleInit == [][C15_InitStep /\ C15_KeepStep]_vars

\* throttle_init has completed on a list whose UNKNOWN_UID entry is the
\* last one, and throttle() has since granted on a record.
C15_Witness ==
    /\ main_pc = "serving"
    /\ ~aborted
    /\ list[Len(list)].uid = UNKNOWN_UID
    /\ \E r \in Records : written[r] # NeverWritten
    /\ \A i \in 1..Len(list) : Full(list[i].uid) = list[i].full

\* ------------------------------------------------------------------------
\* Vocabulary of the properties of file.c.
\* ------------------------------------------------------------------------
\* This step is the failure of calloc in thread t's hub_open_impl.
AllocFails(t) == fpc[t] = "idle" /\ fpc'[t] = "error"

\* This step ends thread t's hub_open or hub_create.
OpenReturns(t) == fpc[t] \in { "open", "error" } /\ fpc'[t] = "idle"

\* This step ends thread t's hub_release.
ReleaseReturns(t) == fpc[t] = "close" /\ fpc'[t] = "idle"

\* The descriptors opened by hub_open_impl: those of the process that are
\* neither the standard ones nor the descriptor of a directory stream.
BackingFds == fdtable \ (StdFds \cup Streams)

\* ------------------------------------------------------------------------
\* C16.  Open/create failure atomicity.  A hub_open or hub_create that
\* fails returns the negative error code, leaves info->fh unset, hands no
\* handle to FUSE, has freed the handle it built and leaves the open
\* descriptors as they were; one that succeeds returns 0 with info->fh an
\* allocated handle whose fd is >= 0 and open.
\* ------------------------------------------------------------------------
C16_OpenStep ==
    \A t \in Threads :
        OpenReturns(t) =>
            IF ret'[t] = 0
            THEN /\ fh'[t] # NULL
                 /\ fh'[t] \in DOMAIN heap'
                 /\ fh'[t] \in held'
                 /\ heap'[fh'[t]].fd >= 0
                 /\ heap'[fh'[t]].fd \in BackingFds'
            ELSE /\ ret'[t] < 0
                 /\ -ret'[t] \in OpenErrnos \cup
                        { ENOMEM, sys_open(backing, bpath[t], flags[t]).err }
                 /\ fh'[t] = NULL
                 /\ held' = held
                 /\ file'[t] \notin DOMAIN heap'
                 /\ fdtable' = fdtable

C16_OpenAtomicity == [][C16_OpenStep]_vars

\* An open has failed with ENOENT while FUSE holds a handle of another,
\* successful, open.
C16_Witness ==
    /\ held # {}
    /\ \E t \in Threads :
          /\ fpc[t] = "idle"
          /\ ret[t] = -ENOENT
          /\ fh[t] = NULL
          /\ file[t] \notin DOMAIN heap

\* ------------------------------------------------------------------------
\* C17.  Allocation failure of the handle is process-fatal: when calloc
\* fails in hub_open_impl the process aborts, and the call does not go on
\* to return an error.  (Stated as the claim has it; the code returns
\* -ENOMEM instead.)
\* ------------------------------------------------------------------------
C17_FatalStep ==
    \A t \in Threads :
        /\ AllocFails(t) => aborted'
        /\ fpc[t] = "error" => fpc'[t] = "error"

C17_ReturnedStep ==
    \A t \in Threads :
        /\ AllocFails(t) => ~aborted'
        /\ (fpc[t] = "error" /\ OpenReturns(t)) =>
            /\ ~aborted'
            /\ ret'[t] = -ENOMEM
            /\ fh'[t] = NULL
            /\ heap' = heap
            /\ held' = held
            /\ fdtable' = fdtable

C18_Inv == \A t \in Threads : fpc[t] = "close" => nclose[t] = 1

C18_ReleaseStep ==
    \A t \in Threads :
        ReleaseReturns(t) =>
            /\ nclose'[t] = 1
            /\ fdtable' = fdtable
            /\ file[t] \notin DOMAIN heap'
            /\ cerr[t] = 0 => ret'[t] = 0
            /\ cerr[t] # 0 => ret'[t] = 0 - cerr[t]

C18_ReleaseOnce == []C18_Inv /\ [][C18_ReleaseStep]_vars

\* A release whose close failed with EINTR has returned.
C18_Witness ==
    \E t \in Threads :
        /\ fpc[t] = "idle"
        /\ nclose[t] = 1
        /\ cerr[t] = EINTR
        /\ ret[t] = -EINTR
        /\ file[t] \notin DOMAIN heap

\* ------------------------------------------------------------------------
\* C19.  Handle/descriptor ownership.  The handles FUSE holds are
\* allocated, each owns an open descriptor, no two own the same one, every
\* descriptor hub_open_impl opened is owned by a handle FUSE holds, and
\* the only other allocated handles are those a handler is still building
\* or destroying.
\* ------------------------------------------------------------------------
C19_Ownership ==
    /\ \A a \in held : a \in DOMAIN heap /\ heap[a].fd \in BackingFds
    /\ \A a, b \in held : a # b => heap[a].fd # heap[b].fd
    /\ \A fd \in BackingFds : \E a \in held : heap[a].fd = fd
    /\ DOMAIN heap \ held =
          { file[t] : t \in { x \in Threads : fpc[x] # "idle" } } \ { NULL }

\* FUSE holds two handles after three opens and a release.
C19_Witness ==
    /\ Cardinality(held) = 2
    /\ opens = 3
    /\ \E t \in Threads : fpc[t] = "idle" /\ nclose[t] = 1

\* ------------------------------------------------------------------------
\* C20.  Throttle before I/O.  A hub_read or hub_write enters throttle()
\* once, for the uid and the size of its request, and issues its pread or
\* pwrite only when that call has returned after its one successful
\* compare-and-swap; a thread whose call is still reading the clock,
\* waiting or at its compare-and-swap issues no I/O.
\* ------------------------------------------------------------------------
\* This step is the entry of a request into its handler, and this one the
\* pread or pwrite that ends it.
RequestEnters(t) == op[t] = "none" /\ op'[t] # "none"
IoIssued(t) == op[t] # "none" /\ op'[t] = "none"

C20_Step ==
    \A t \in Threads :
        /\ RequestEnters(t) =>
              /\ pc'[t] = "clock"
              /\ ncas'[t] = 0
              /\ op'[t] = "read" => << uid'[t], amt'[t] >> \in ReadRequests(list)
              /\ op'[t] = "write" => << uid'[t], amt'[t] >> \in WriteRequests(list)
              /\ udata'[t] = RecordFor(uid'[t])
        /\ (op[t] # "none" /\ ~IoIssued(t)) =>
              /\ op'[t] = op[t]
              /\ uid'[t] = uid[t]
              /\ amt'[t] = amt[t]
              /\ udata'[t] = udata[t]
        /\ IoIssued(t) =>
              /\ pc[t] = "granted"
              /\ ncas[t] = 1
              /\ ~InThrottle(t)

C20_Inv ==
    \A t \in Threads :
        /\ op[t] = "none" <=> pc[t] = "idle"
        /\ InThrottle(t) => ncas[t] = 0

C20_ThrottleBeforeIo == []C20_Inv /\ [][C20_Step]_vars

\* A write has been granted and is about to issue its pwrite while a read
\* on the same record is still waiting for the next period.
C20_Witness ==
    \E t1, t2 \in Threads :
        /\ pc[t1] = "granted" /\ op[t1] = "write"
        /\ pc[t2] = "sleep" /\ op[t2] = "read"
        /\ udata[t1] = udata[t2]

\* ------------------------------------------------------------------------
\* C27.  Fast retry after a lost race: a thread whose compare-and-swap
\* fails goes on at once, without a sleep, with the value the
\* compare-and-swap returned as its prev; and a thread starts to sleep
\* only when the word it last read carries the current period and fewer
\* remaining bytes than the amount it asks for.
\* ------------------------------------------------------------------------
C27_RetryStep ==
    \A t \in Threads :
        /\ (pc[t] = "cas" /\ pc'[t] \notin { "cas", "granted" }) =>
              /\ pc'[t] = "clock"
              /\ prev'[t] = g_uid_table[udata[t]].cur
              /\ prev'[t] # prev[t]
              /\ delta'[t] = delta[t]
              /\ g_uid_table' = g_uid_table
        /\ (pc[t] = "clock" /\ pc'[t] = "sleep") =>
              /\ PeriodOf(prev[t]) = CurPeriod(clock)
              /\ Less(ShiftRight(prev[t]), amt[t])

C27_FastRetry == [][C27_RetryStep]_vars

\* A thread is back at the top of the loop after a failed compare-and-swap:
\* it has computed a budget in this call, it has not slept, and its prev is
\* the word another thread has stored.
C27_Witness ==
    \E t, t2 \in Threads :
        /\ t # t2
        /\ pc[t] = "clock"
        /\ avail[t] # Zero
        /\ delta[t] = NoDelta
        /\ prev[t] = g_uid_table[udata[t]].cur
        /\ pc[t2] = "granted"
        /\ udata[t2] = udata[t]

\* ------------------------------------------------------------------------
\* C29.  Period tag monotonicity: as long as the period index has not
\* wrapped around 2^BITS_PER_PERIOD, no step replaces the packed state of
\* a record by one with a smaller period tag.
\* ------------------------------------------------------------------------
C29_TagStep ==
    main_pc = "serving" =>
        \A r \in Records : PeriodOf(g_uid_table'[r].cur) >= Tag(r)

C29_TagMonotone == [][C29_TagStep]_vars

\* A grant of the current period has been stored after the clock advanced,
\* while another thread on the same record still holds a word of an
\* earlier period that it read before the advance.
C29_Witness ==
    \E t, t2 \in Threads :
        /\ ticks >= 1
        /\ pc[t] = "granted"
        /\ Tag(udata[t]) = CurPeriod(clock)
        /\ pc[t2] \in { "clock", "cas" }
        /\ udata[t2] = udata[t]
        /\ PeriodOf(prev[t2]) # 0
        /\ PeriodOf(prev[t2]) < Tag(udata[t])

\* ------------------------------------------------------------------------
\* C30.  Valid wait: the interval a sleeping thread has passed to
\* nanosleep is a valid non-negative duration, tv_sec >= 0 and
\* 0 <= tv_nsec < 1000000000.  (Stated as the claim has it; the code
\* violates it for a clock reading with tv_nsec = 0.)
\* ------------------------------------------------------------------------
C30_ValidWait ==
    \A t \in Threads :
        pc[t] = "sleep" =>
            /\ delta[t].tv_sec >= 0
            /\ 0 <= delta[t].tv_nsec
            /\ delta[t].tv_nsec < NSEC_PER_SEC

\* ------------------------------------------------------------------------
\* Calls that contend for one record, under a fair scheduler.
\* ------------------------------------------------------------------------
\* The list is that of scenario A, whose requests all go to one record.
ContendInit == BootInit /\ list = ScenarioAList

ContendSpec == ContendInit /\ [][Next]_vars /\ Fairness

\* ------------------------------------------------------------------------
\* C28.  Lock-freedom.  A compare-and-swap fails only when the word is no
\* longer the value the thread read, and the word of a record changes
\* under a thread that has read it only by the successful
\* compare-and-swap of another thread on that record.  Therefore, when a
\* thread stands before its compare-and-swap with the word still as it
\* read it and no call on the record has just been granted, some call on
\* that record is granted (or the process has aborted).
\* ------------------------------------------------------------------------
C28_CasStep ==
    \A t \in Threads :
        /\ (pc[t] = "cas" /\ pc'[t] = "clock") =>
              g_uid_table[udata[t]].cur # prev[t]
        /\ (/\ pc[t] \in { "clock", "cas" }
            /\ prev[t] = g_uid_table[udata[t]].cur
            /\ g_uid_table'[udata[t]].cur # g_uid_table[udata[t]].cur) =>
              \/ GrantStep(t)
              \/ \E t2 \in Threads \ {t} :
                    GrantStep(t2) /\ udata[t2] = udata[t]

C28_Contended(r) ==
    /\ \E t \in Threads : pc[t] = "cas" /\ udata[t] = r
    /\ \A t \in Threads : udata[t] = r => pc[t] # "granted"

C28_Completed(r) ==
    aborted \/ \E t \in Threads : pc[t] = "granted" /\ udata[t] = r

C28_Progress ==
    C28_Contended(1014) ~> C28_Completed(1014)

C28_LockFree == [][C28_CasStep]_vars /\ C28_Progress

\* Two threads stand before their compare-and-swap on one record, both
\* with the word as it is: only one of the two can succeed.
C28_Witness ==
    \E t1, t2 \in Threads :
        /\ t1 # t2
        /\ pc[t1] = "cas" /\ pc[t2] = "cas"
        /\ udata[t1] = udata[t2]
        /\ prev[t1] = g_uid_table[udata[t1]].cur
        /\ prev[t2] = prev[t1]

\* ------------------------------------------------------------------------
\* C23.  For every command line [prog, opt_1 .. opt_n, root, mount_point]
\* that setup_hub_args accepts, the argument vector it produces is
\* [prog, the four mandatory options, opt_1 .. opt_n, mount_point],
\* NULL-terminated, and the backing root it records is root, the
\* second-to-last argument.  (Stated as the claim has it; the code
\* violates it.)
\* ------------------------------------------------------------------------
C23_Expected ==
    << At(argv, 0) >> \o MANDATORY_OPTIONS
        \o SubSeq(argv, 2, Len(argv) - 2) \o << At(argv, Len(argv) - 1) >>

C23_SetupArgs ==
    (last.op = "setup_hub_args" /\ last.ret = 0) =>
        /\ args.argc = Len(C23_Expected)
        /\ \A i \in 0..(args.argc - 1) : args.argv[i] = At(C23_Expected, i)
        /\ args.argv[args.argc] = NULL
        /\ fs_root = At(argv, Len(argv) - 2)

\* ------------------------------------------------------------------------
\* C24.  snappend returns -ENAMETOOLONG whenever the buffer has not enough
\* space for the whole formatted text, that is when the length of the
\* string in the buffer plus the length of the formatted text is at least
\* str_len, and 0 only when the whole text was appended.  (Stated as the
\* claim has it; the code violates it.)
\* ------------------------------------------------------------------------
C24_ReturnStep ==
    \A text \in Texts :
        snappend_call(text) =>
            /\ sn_ret' = -ENAMETOOLONG <=> strlen(str) + Len(text) >= BufLen
            /\ sn_ret' = 0 =>
                  /\ strlen(str') = strlen(str) + Len(text)
                  /\ \A i \in 1..Len(text) : str'[strlen(str) + i - 1] = text[i]

C24_ReportsTruncation == [][C24_ReturnStep]_vars

\* ------------------------------------------------------------------------
\* C25.  Bounded append: after any sequence of snappend calls on a buffer
\* of BufLen bytes that started empty, the buffer holds the first
\* min(total length, BufLen - 1) characters of the concatenated texts and
\* a terminator, no byte at index BufLen or beyond has been written, and a
\* call alters no character already in the buffer (a call on a full
\* buffer leaves the buffer as it is).
\* ------------------------------------------------------------------------
Contents(mem) == [ i \in 1..strlen(mem) |-> mem[i - 1] ]

C25_Inv ==
    /\ \E n \in 0..(BufLen - 1) : str[n] = NUL
    /\ Contents(str) = SubSeq(appended, 1, Min(Len(appended), BufLen - 1))
    /\ \A i \in BufLen..(MemLen - 1) : str[i] = Canary

C25_Step ==
    /\ \A i \in 0..(strlen(str) - 1) : str'[i] = str[i]
    /\ strlen(str) = BufLen - 1 => str' = str

C25_BoundedAppend == []C25_Inv /\ [][C25_Step]_vars

\* The texts appended are longer than the buffer, the buffer is full, and
\* the last call was made on the full buffer.
C25_Witness ==
    /\ nappend >= 2
    /\ Len(appended) > BufLen + 1
    /\ strlen(str) = BufLen - 1
    /\ \E k \in 1..MaxText :
          SubSeq(appended, 1, Len(appended) - k) = Contents(str)

\* ------------------------------------------------------------------------
\* C22.  Transparent error reporting: when the backing system call of an
\* operation fails with error e the operation returns -e, and it returns
\* 0 only when the backing call succeeded.  (Stated as the claim has it;
\* the code violates it.)
\* ------------------------------------------------------------------------
C22_Transparent ==
    last.op \notin { "none", "setup_hub_args", "recursive_unlink" } =>
        /\ last.err # 0 => last.ret = -last.err
        /\ last.ret = 0 => last.err = 0

\* ------------------------------------------------------------------------
\* C21.  Only read and write touch quota state.  A step of any other
\* handler (open, create, release, flush, fsync, ftruncate, fallocate,
\* fgetattr, every metadata operation) leaves the packed state of every
\* record unchanged and moves no thread into or inside throttle(); the
\* packed state of a record changes only in the compare-and-swap of a
\* thread that runs hub_read or hub_write, and only such threads are
\* inside throttle(); hub_flush returns 0 and changes nothing, as often
\* as it is called on a handle.
\* ------------------------------------------------------------------------
C21_FrameStep ==
    /\ (last' # last \/ fvars' # fvars) =>
          /\ g_uid_table' = g_uid_table
          /\ UNCHANGED << tvars, op, granted, calls >>
    /\ (last' # last /\ last'.op = "flush") =>
          /\ last'.ret = 0
          /\ last'.err = 0
          /\ UNCHANGED << backing, fvars, list, main_pc, aborted, clock >>
    /\ g_uid_table' # g_uid_table =>
          \E t \in Threads : GrantStep(t) /\ op[t] \in { "read", "write" }

C21_Inv ==
    /\ \A t \in Threads : InThrottle(t) => op[t] \in { "read", "write" }
    /\ last.op = "flush" => last.ret = 0

C21_OnlyIoThrottles == []C21_Inv /\ [][C21_FrameStep]_vars

\* hub_flush has returned on a handle that is still open, after a write
\* was granted and charged to a record.
C21_Witness ==
    /\ last.op = "flush"
    /\ held # {}
    /\ \E t \in Threads : pc[t] = "granted" /\ op[t] = "write"
    /\ \E r \in Records : g_uid_table[r].cur # Zero

\* ------------------------------------------------------------------------
\* C26.  When recursive_unlink(path) returns 0, path and every file and
\* directory below it no longer exist.  (Stated as the claim has it; the
\* code violates it.)
\* ------------------------------------------------------------------------
C26_TreeRemoved ==
    (last.op = "recursive_unlink" /\ last.ret = 0) =>
        \A q \in DOMAIN backing : ~IsPrefix(last.path, q)
====
